---- MODULE Spec2Model ----
(***************************************************************************)
(* Model of nepalgeohelper: the Dataset Store (NepalGeoData), the          *)
(* Similarity Engine (calculateRelevance / calculateFuzzyScore /           *)
(* levenshteinDistance), the Query Router (GeoSearch) and the Validation   *)
(* Layer (LocationValidator, PostalUtils.validatePostalCode), the          *)
(* statistics and export of DistrictUtils, and the load of the store by    *)
(* the constructor of NepalGeoData (loadData, createDataFromCSV,           *)
(* processData).                                                           *)
(*                                                                         *)
(* A JavaScript string is a sequence of one-character strings.  Any other  *)
(* JavaScript value is a record with a "kind" field (see JS values).       *)
(***************************************************************************)
EXTENDS Integers, Sequences, FiniteSets, TLC

VARIABLES
    districts,    \* NepalGeoData.districts: the districts, in key insertion order
    postOffices,  \* NepalGeoData.postOffices: the global list, in source order
    op,           \* the operation of the call in progress ("idle" between calls)
    args,         \* the arguments of that call
    result,       \* its outcome: Return(value) or Throw(error)
    validated,    \* history: for each address a client re-validates, how often
                  \* validateAddress was called on it and what it returned first
    data,         \* NepalGeoData.data: the document the store was built from
    files,        \* the files of the package: data/postal-data.json, npm.txt
    pc            \* the call stack of the constructor, innermost frame first;
                  \* empty once it has returned

vars == <<districts, postOffices, op, args, result, validated, data, files, pc>>

----------------------------------------------------------------------------
(* Bounds of the model *)

\* longest generated query over GenAlphabet
MaxQueryLen == 4
\* largest explicit `limit` option tried
MaxLimit == 3
\* longest generated string compared by calculateSimilarity
MaxTextLen == 3

----------------------------------------------------------------------------
(* Strings *)

sEmpty == <<>>
sKathmandu == <<"K", "a", "t", "h", "m", "a", "n", "d", "u">>
sLalitpur == <<"L", "a", "l", "i", "t", "p", "u", "r">>
sBhaktapur == <<"B", "h", "a", "k", "t", "a", "p", "u", "r">>
sChitwan == <<"C", "h", "i", "t", "w", "a", "n">>
sChitawan == <<"C", "h", "i", "t", "a", "w", "a", "n">>
sKalimati == <<"K", "a", "l", "i", "m", "a", "t", "i">>
sNayaBazar == <<"N", "a", "y", "a", " ", "B", "a", "z", "a", "r">>
sKathmanduPadded == <<"K", "a", "t", "h", "m", "a", "n", "d", "u", " ">>
s44600 == <<"4", "4", "6", "0", "0">>
s44700 == <<"4", "4", "7", "0", "0">>
s44800 == <<"4", "4", "8", "0", "0">>
s44200 == <<"4", "4", "2", "0", "0">>
s44614 == <<"4", "4", "6", "1", "4">>
s99999 == <<"9", "9", "9", "9", "9">>
s4460 == <<"4", "4", "6", "0">>
s446 == <<"4", "4", "6">>
s44600Padded == <<" ", "4", "4", "6", "0", "0">>
sGPO == <<"G", ".", "P", ".", "O", ".">>
sDPO == <<"D", ".", "P", ".", "O", ".">>
sAPO == <<"A", ".", "P", ".", "O", ".">>
s_ktm == <<"k", "t", "m">>
s_bhkt == <<"b", "h", "k", "t">>
s_lalitpurr == <<"l", "a", "l", "i", "t", "p", "u", "r", "r">>
s_kath == <<"k", "a", "t", "h">>
s_Kath == <<"K", "a", "t", "h">>
s_kathPadded == <<" ", "k", "a", "t", "h", " ">>
s_kathmandu == <<"k", "a", "t", "h", "m", "a", "n", "d", "u">>
s_KATHMANDU == <<"K", "A", "T", "H", "M", "A", "N", "D", "U">>
s_mandu == <<"m", "a", "n", "d", "u">>
s_nb == <<"n", "b">>
s_pur == <<"p", "u", "r">>
s_chit == <<"c", "h", "i", "t">>
s_xyz == <<"x", "y", "z">>
s_sixTokens == <<"a", " ", "a", " ", "a", " ", "a", " ", "a", " ", "a">>
s_abcd == <<"a", " ", "b", " ", "c", " ", "d">>
sABCDE == <<"A", " ", "B", " ", "C", " ", "D", " ", "E">>
sDcba == <<"D", "c", "b", "a">>
sKtm == <<"K", "t", "m">>
sLalitpor == <<"L", "a", "l", "i", "t", "p", "o", "r">>
sKalimaty == <<"K", "a", "l", "i", "m", "a", "t", "y">>
sParsa == <<"P", "a", "r", "s", "a">>
sParbat == <<"P", "a", "r", "b", "a", "t">>
sBirganj == <<"B", "i", "r", "g", "a", "n", "j">>
sKusma == <<"K", "u", "s", "m", "a">>
s44300 == <<"4", "4", "3", "0", "0">>
s33400 == <<"3", "3", "4", "0", "0">>
sParitpur == <<"P", "a", "r", "i", "t", "p", "u", "r">>
sAnbu == <<"A", "n", "b", "u">>
s44701 == <<"4", "4", "7", "0", "1">>
s_ka == <<"k", "a">>
s_k == <<"k">>

\* String.prototype.toLowerCase, one character
ToLowerChar(c) ==
    CASE c = "A" -> "a" [] c = "B" -> "b" [] c = "C" -> "c" [] c = "D" -> "d"
      [] c = "E" -> "e" [] c = "F" -> "f" [] c = "G" -> "g" [] c = "H" -> "h"
      [] c = "I" -> "i" [] c = "J" -> "j" [] c = "K" -> "k" [] c = "L" -> "l"
      [] c = "M" -> "m" [] c = "N" -> "n" [] c = "O" -> "o" [] c = "P" -> "p"
      [] c = "Q" -> "q" [] c = "R" -> "r" [] c = "S" -> "s" [] c = "T" -> "t"
      [] c = "U" -> "u" [] c = "V" -> "v" [] c = "W" -> "w" [] c = "X" -> "x"
      [] c = "Y" -> "y" [] c = "Z" -> "z" [] OTHER -> c

\* String.prototype.toLowerCase
ToLowerCase(s) == SubSeq([i \in 1..Len(s) |-> ToLowerChar(s[i])], 1, Len(s))

IsSpace(c) == c \in {" ", "\n", "\r", "\t"}

Digits == {"0", "1", "2", "3", "4", "5", "6", "7", "8", "9"}

RECURSIVE TrimStart(_)
TrimStart(s) == IF s # <<>> /\ IsSpace(Head(s)) THEN TrimStart(Tail(s)) ELSE s

RECURSIVE TrimEnd(_)
TrimEnd(s) ==
    IF s # <<>> /\ IsSpace(s[Len(s)]) THEN TrimEnd(SubSeq(s, 1, Len(s) - 1)) ELSE s

\* String.prototype.trim
Trim(s) == TrimEnd(TrimStart(s))

\* String.prototype.startsWith
StartsWith(s, p) == Len(p) <= Len(s) /\ SubSeq(s, 1, Len(p)) = p

\* String.prototype.includes (the empty string is included in every string)
Includes(s, p) ==
    \E i \in 0..(Len(s) - Len(p)) : SubSeq(s, i + 1, i + Len(p)) = p

\* /^\d{5}$/.test(s)
IsFiveDigits(s) == Len(s) = 5 /\ \A i \in 1..5 : s[i] \in Digits

\* String.prototype.split on the separator characters seps: the pieces between
\* separators, empty pieces kept ("" splits into one empty piece)
Split(s, seps) ==
    LET cuts == {i \in 1..Len(s) : s[i] \in seps}
        \* the k-th cut, with 0 before the first and Len(s) + 1 after the last
        cut(k) == IF k = 0 THEN 0
                  ELSE IF k > Cardinality(cuts) THEN Len(s) + 1
                  ELSE CHOOSE i \in cuts : Cardinality({j \in cuts : j < i}) = k - 1
    IN  SubSeq([k \in 1..(Cardinality(cuts) + 1) |->
                    SubSeq(s, cut(k - 1) + 1, cut(k) - 1)],
               1, Cardinality(cuts) + 1)

Min2(a, b) == IF a <= b THEN a ELSE b
Max2(a, b) == IF a >= b THEN a ELSE b
Min3(a, b, c) == Min2(a, Min2(b, c))

----------------------------------------------------------------------------
(* Similarity Engine *)

\* One row of the matrix of levenshteinDistance: row i, for character c of
\* str2, from row i-1 (prev).  Column j of a row is element j+1 of the tuple.
LevRow(prev, c, str1, i) ==
    LET cur[j \in 0..Len(str1)] ==
            IF j = 0 THEN i
            ELSE IF c = str1[j] THEN prev[j]
            ELSE Min3(prev[j] + 1, cur[j - 1] + 1, prev[j + 1] + 1)
    IN  SubSeq([k \in 1..(Len(str1) + 1) |-> cur[k - 1]], 1, Len(str1) + 1)

\* the rows of the matrix from row i on, given row i-1 (prev); the last row.
\* Each row is built in full before the next one is.
RECURSIVE LevRows(_, _, _, _)
LevRows(prev, str1, str2, i) ==
    IF Len(prev) = Len(str1) + 1 /\ i > Len(str2) THEN prev
    ELSE LevRows(LevRow(prev, str2[i], str1, i), str1, str2, i + 1)

\* NepalGeoData.levenshteinDistance: matrix[str2.length][str1.length]
LevenshteinDistance(str1, str2) ==
    LevRows(SubSeq([j \in 1..(Len(str1) + 1) |-> j - 1], 1, Len(str1) + 1),
            str1, str2, 1)[Len(str1) + 1]

\* the abbreviations table of calculateFuzzyScore, in source order
Abbreviations ==
    << <<s_ktm, s_kathmandu>>,
       << <<"p", "o", "k">>, <<"p", "o", "k", "h", "a", "r", "a">> >>,
       << <<"p", "o", "k", "h", "r", "a">>, <<"p", "o", "k", "h", "a", "r", "a">> >>,
       << s_lalitpurr, <<"l", "a", "l", "i", "t", "p", "u", "r">> >>,
       << s_bhkt, <<"b", "h", "a", "k", "t", "a", "p", "u", "r">> >>,
       << <<"b", "k", "t">>, <<"b", "h", "a", "k", "t", "a", "p", "u", "r">> >>,
       << <<"c", "h", "i", "t", "a", "w", "a", "n">>, <<"c", "h", "i", "t", "w", "a", "n">> >>,
       << s_chit, <<"c", "h", "i", "t", "w", "a", "n">> >> >>

\* the table read backwards: query is an expansion, text includes its key
AbbreviationHitBackwards(text, query) ==
    \E k \in 1..Len(Abbreviations) :
        Abbreviations[k][2] = query /\ Includes(text, Abbreviations[k][1])

\* query is a key of the table and text includes its expansion
AbbreviationHit(text, query) ==
    \E k \in 1..Len(Abbreviations) :
        Abbreviations[k][1] = query /\ Includes(text, Abbreviations[k][2])

\* query is an expansion of the table and text includes its abbreviation
ExpansionHit(text, query) ==
    \E k \in 1..Len(Abbreviations) :
        Abbreviations[k][2] = query /\ Includes(text, Abbreviations[k][1])

\* words.slice(0, n).map(w => w.charAt(0)).join('')
RECURSIVE FirstLetters(_, _)
FirstLetters(words, n) ==
    IF n = 0 \/ words = <<>> THEN <<>>
    ELSE (IF Head(words) = <<>> THEN <<>> ELSE <<Head(words)[1]>>)
         \o FirstLetters(Tail(words), n - 1)

AcronymHit(text, query) ==
    /\ Len(query) >= 2
    /\ Len(query) <= 4
    /\ LET words == Split(text, {" ", "-"})
       IN  Len(words) >= Len(query) /\ FirstLetters(words, Len(query)) = query

\* Math.round(similarity * 50) with similarity = 1 - distance / maxLength,
\* in integers: round half up of 50 * (m - d) / m
EditScore(d, m) == (100 * (m - d) + m) \div (2 * m)

\* a similarity above one half
EditSimilarAboveHalf(d, m) == m > 0 /\ 10 * (m - d) > 5 * m

\* similarity > 0.6
EditSimilar(d, m) == m > 0 /\ 10 * (m - d) > 6 * m

\* NepalGeoData.calculateFuzzyScore (text and query already lower-cased)
CalculateFuzzyScore(text, query) ==
    IF AbbreviationHit(text, query) THEN 75
    ELSE IF ExpansionHit(text, query) THEN 75
    ELSE IF AcronymHit(text, query) THEN 70
    ELSE LET distance == LevenshteinDistance(text, query)
             maxLength == Max2(Len(text), Len(query))
         IN  IF EditSimilar(distance, maxLength)
             THEN EditScore(distance, maxLength)
             ELSE 0

\* the partial match score: 20 for every piece of the query that text includes
WordScore(text, queryWords) ==
    20 * Cardinality({k \in 1..Len(queryWords) : Includes(text, queryWords[k])})

\* a weighted sum in place of the cascade: every applicable rule adds its score
CalculateRelevanceSummed(text, query) ==
    LET normalizedText == ToLowerCase(text)
        normalizedQuery == ToLowerCase(query)
    IN  (IF normalizedText = normalizedQuery THEN 100 ELSE 0)
        + (IF StartsWith(normalizedText, normalizedQuery) THEN 80 ELSE 0)
        + (IF Includes(normalizedText, normalizedQuery) THEN 60 ELSE 0)
        + CalculateFuzzyScore(normalizedText, normalizedQuery)
        + WordScore(normalizedText, Split(normalizedQuery, {" "}))

\* NepalGeoData.calculateRelevance
CalculateRelevance(text, query) ==
    LET normalizedText == ToLowerCase(text)
        normalizedQuery == ToLowerCase(query)
    IN  IF normalizedText = normalizedQuery THEN 100
        ELSE IF StartsWith(normalizedText, normalizedQuery) THEN 80
        ELSE IF Includes(normalizedText, normalizedQuery) THEN 60
        ELSE LET fuzzyScore == CalculateFuzzyScore(normalizedText, normalizedQuery)
             IN  IF fuzzyScore > 0 THEN fuzzyScore
                 ELSE WordScore(normalizedText, Split(normalizedQuery, {" "}))

----------------------------------------------------------------------------
(* JS values: what a caller can pass where a string or an object is expected *)

Str(s) == [kind |-> "string", s |-> s]
Num(n) == [kind |-> "number", n |-> n]
Arr(items) == [kind |-> "array", items |-> items]
NULL == [kind |-> "null"]
UNDEFINED == [kind |-> "undefined"]

\* the kind of a value; a record of the store or of a result is an object
Kind(v) == IF "kind" \in DOMAIN v THEN v.kind ELSE "object"

\* typeof v === 'string'
IsString(v) == Kind(v) = "string"

\* ToBoolean(v): null, undefined, 0 and "" are falsy; objects and arrays truthy
Truthy(v) ==
    CASE Kind(v) = "null" -> FALSE
      [] Kind(v) = "undefined" -> FALSE
      [] Kind(v) = "string" -> v.s # <<>>
      [] Kind(v) = "number" -> v.n # 0
      [] OTHER -> TRUE

\* the outcome of a call: a returned value, or a thrown error
Return(v) == [throws |-> FALSE, value |-> v]
Throw(e) == [throws |-> TRUE, error |-> e]

----------------------------------------------------------------------------
(* Dataset Store *)

\* the corrections table of normalizeDistrictName
Corrections ==
    << <<sChitawan, sChitwan>>,
       << <<"K", "a", "v", "e", "r", "p", "a", "l", "a", "n", "c", "h", "o", "k">>,
          <<"K", "a", "v", "r", "e", "p", "a", "l", "a", "n", "c", "h", "o", "k">> >>,
       << <<"M", "a", "k", "a", "b", "a", "n", "p", "u", "r">>,
          <<"M", "a", "k", "a", "w", "a", "n", "p", "u", "r">> >>,
       << <<"T", "a", "p", "l", "a", "j", "u", "n", "g">>,
          <<"T", "a", "p", "l", "e", "j", "u", "n", "g">> >>,
       << <<"K", "a", "i", "l", "a", "l">>, <<"K", "a", "i", "l", "a", "l", "i">> >>,
       << <<"S", "y", "a", "n", "j", "a">>, <<"S", "y", "a", "n", "g", "j", "a">> >> >>

\* NepalGeoData.normalizeDistrictName
NormalizeDistrictName(district) ==
    LET normalized == Trim(district)
    IN  IF \E k \in 1..Len(Corrections) : Corrections[k][1] = normalized
        THEN Corrections[CHOOSE k \in 1..Len(Corrections) :
                            Corrections[k][1] = normalized][2]
        ELSE normalized

\* a record of the Dataset Source
Entry(district, postOffice, code, type) ==
    [District |-> district, PostOffice |-> postOffice, Code |-> code, Type |-> type]

\* index of the district keyed name in ds, 0 when there is none
DistrictIndex(ds, name) ==
    IF \E i \in 1..Len(ds) : ds[i].name = name
    THEN CHOOSE i \in 1..Len(ds) : ds[i].name = name
    ELSE 0

\* an entry added to the store without counting it when its district is
\* already there
ProcessEntryCountedOnce(store, entry) ==
    LET district == NormalizeDistrictName(entry.District)
        postOffice == [name |-> entry.PostOffice, postalCode |-> entry.Code,
                       type |-> entry.Type, district |-> district]
        ds == IF DistrictIndex(store.districts, district) = 0
              THEN Append(store.districts,
                          [name |-> district, postOfficeCount |-> 0, postOffices |-> <<>>])
              ELSE store.districts
        i == DistrictIndex(ds, district)
    IN  [districts |-> [ds EXCEPT ![i] =
                           [name |-> ds[i].name,
                            postOfficeCount |-> 1,
                            postOffices |-> Append(ds[i].postOffices, postOffice)]],
         postOffices |-> Append(store.postOffices, postOffice)]

\* the body of the forEach of processData: one source entry added to the store
ProcessEntry(store, entry) ==
    LET district == NormalizeDistrictName(entry.District)
        postOffice == [name |-> entry.PostOffice, postalCode |-> entry.Code,
                       type |-> entry.Type, district |-> district]
        ds == IF DistrictIndex(store.districts, district) = 0
              THEN Append(store.districts,
                          [name |-> district, postOfficeCount |-> 0, postOffices |-> <<>>])
              ELSE store.districts
        i == DistrictIndex(ds, district)
    IN  [districts |-> [ds EXCEPT ![i] =
                           [name |-> ds[i].name,
                            postOfficeCount |-> ds[i].postOfficeCount + 1,
                            postOffices |-> Append(ds[i].postOffices, postOffice)]],
         postOffices |-> Append(store.postOffices, postOffice)]

RECURSIVE ProcessEntries(_, _)
ProcessEntries(store, entries) ==
    IF entries = <<>> THEN store
    ELSE ProcessEntries(ProcessEntry(store, Head(entries)), Tail(entries))

\* NepalGeoData.processData
ProcessData(postal_data) ==
    ProcessEntries([districts |-> <<>>, postOffices |-> <<>>], postal_data)

\* The Dataset Sources the store is loaded from.  District names are
\* case-insensitively distinct after normalization, as in the bundled data;
\* Parsa and Parbat are two of them within edit distance of each other.
SourceClean ==
    << Entry(sKathmandu, sKathmandu, s44600, sGPO),
       Entry(sKathmandu, sKalimati, s44614, sAPO),
       Entry(sLalitpur, sLalitpur, s44700, sDPO),
       Entry(sBhaktapur, sBhaktapur, s44800, sDPO),
       Entry(sParsa, sBirganj, s44300, sDPO),
       Entry(sParbat, sKusma, s33400, sDPO) >>

\* raw spellings that normalize (padding, a corrected spelling), a name of
\* several words, a postal code carried by two post offices, and a name that
\* contains the initials of another
SourceRaw ==
    << Entry(sKathmanduPadded, sKathmandu, s44600, sGPO),
       Entry(sChitawan, sNayaBazar, s44200, sAPO),
       Entry(sChitwan, sKalimati, s44200, sAPO),
       Entry(sLalitpur, sLalitpur, s44700, sDPO),
       Entry(sLalitpur, sAnbu, s44701, sAPO) >>

Sources == {SourceClean, SourceRaw}

\* NepalGeoData.getAllDistricts
GetAllDistricts == districts

\* NepalGeoData.getAllPostOffices
GetAllPostOffices == postOffices

\* a lookup that also accepts a name one edit away from a stored name
GetDistrictByNameNearest(name) ==
    LET normalizedName == Trim(ToLowerCase(name))
        hits == {i \in 1..Len(districts) :
                    LevenshteinDistance(ToLowerCase(districts[i].name), normalizedName) <= 1}
    IN  IF hits = {} THEN NULL
        ELSE districts[CHOOSE i \in hits : \A j \in hits : i <= j]

\* NepalGeoData.getDistrictByName: the district record, or NULL
GetDistrictByName(name) ==
    LET normalizedName == Trim(ToLowerCase(name))
        hits == {i \in 1..Len(districts) : ToLowerCase(districts[i].name) = normalizedName}
    IN  IF hits = {} THEN NULL
        ELSE districts[CHOOSE i \in hits : \A j \in hits : i <= j]

\* NepalGeoData.getPostOfficeByCode: Array.prototype.find gives the first post
\* office carrying the code, or undefined
GetPostOfficeByCode(postalCode) ==
    LET hits == {i \in 1..Len(postOffices) : postOffices[i].postalCode = postalCode}
    IN  IF hits = {} THEN UNDEFINED
        ELSE postOffices[CHOOSE i \in hits : \A j \in hits : i <= j]

----------------------------------------------------------------------------
(* Loading the Dataset Store: files, parseCSV, processData *)

\* a file that is not there, and one that cannot be read
Absent == [kind |-> "absent"]
Unreadable == [kind |-> "unreadable"]

\* data/postal-data.json: the text of a JSON document, or text that is no JSON
JsonText(doc) == [kind |-> "json", doc |-> doc]
Malformed == [kind |-> "malformed"]

\* npm.txt: its characters
CsvText(text) == [kind |-> "csv", text |-> text]

\* fs.readFileSync(dataPath) then JSON.parse(rawData)
ReadJSON(file) ==
    IF file.kind = "json" THEN Return(file.doc)
    ELSE IF file.kind = "malformed" THEN Throw("SyntaxError")
    ELSE Throw("ENOENT")

\* the loop of parseCSVLine from character i on: a quote toggles inQuotes, a
\* comma outside quotes ends a field, every field is trimmed
RECURSIVE ScanCSVLine(_, _, _, _, _)
ScanCSVLine(line, i, fields, current, inQuotes) ==
    IF i > Len(line) THEN Append(fields, Trim(current))
    ELSE IF line[i] = "\""
         THEN ScanCSVLine(line, i + 1, fields, current, ~inQuotes)
    ELSE IF line[i] = "," /\ ~inQuotes
         THEN ScanCSVLine(line, i + 1, Append(fields, Trim(current)), <<>>, inQuotes)
    ELSE ScanCSVLine(line, i + 1, fields, Append(current, line[i]), inQuotes)

\* NepalGeoData.parseCSVLine
ParseCSVLine(line) == ScanCSVLine(line, 1, <<>>, <<>>, FALSE)

\* NepalGeoData.parseCSV: the lines after the header that have 4 fields or more
ParseCSV(csvData) ==
    LET parsed == {[i \in 1..(Len(lines) - 1) |-> ParseCSVLine(lines[i + 1])] :
                        lines \in {Split(Trim(csvData), {"\n"})}}
        kept == {SelectSeq(fields, LAMBDA f : Len(f) >= 4) : fields \in parsed}
    IN  CHOOSE entries \in {[k \in 1..Len(rows) |->
                                Entry(rows[k][1], rows[k][2], rows[k][3], rows[k][4])] :
                            rows \in kept} : TRUE

\* the jsonData of createDataFromCSV; lastUpdated is the time of the call
JsonData(parsedData) ==
    [kind |-> "object",
     postal_data |-> Arr(parsedData),
     metadata |-> [totalRecords |-> Len(parsedData), lastUpdated |-> "now"]]

\* this.data.postal_data
PostalDataOf(d) ==
    IF Truthy(d) /\ "postal_data" \in DOMAIN d THEN d.postal_data ELSE UNDEFINED

\* an entry the forEach of processData fails on: entry.District of null, or
\* trim of a District that is missing
BadEntry(entry) == ~Truthy(entry) \/ "District" \notin DOMAIN entry

\* the entries before the first bad one
GoodPrefix(entries) ==
    LET bad == {i \in 1..Len(entries) : BadEntry(entries[i])}
    IN  IF bad = {} THEN entries
        ELSE SubSeq(entries, 1, (CHOOSE i \in bad : \A j \in bad : i <= j) - 1)

\* a processData that adds to a store that already holds the entries
RunProcessDataAppending(d, store) ==
    LET postal_data == PostalDataOf(d)
    IN  IF ~Truthy(d) \/ ~Truthy(postal_data)
        THEN [threw |-> TRUE, districts |-> store.districts,
              postOffices |-> store.postOffices]
        ELSE IF Kind(postal_data) # "array"
        THEN [threw |-> TRUE, districts |-> <<>>, postOffices |-> <<>>]
        ELSE LET found == ProcessData(GoodPrefix(postal_data.items))
                 built == ProcessEntries(found, GoodPrefix(postal_data.items))
             IN  [threw |-> GoodPrefix(postal_data.items) # postal_data.items,
                  districts |-> built.districts, postOffices |-> built.postOffices]

\* NepalGeoData.processData run on this.data = d with the store as it is:
\* whether it threw, and the store it leaves.  It throws before touching the
\* store when there is no postal_data; otherwise it empties the store and
\* adds entry after entry, up to the first entry it fails on
RunProcessData(d, store) ==
    LET postal_data == PostalDataOf(d)
    IN  IF ~Truthy(d) \/ ~Truthy(postal_data)
        THEN [threw |-> TRUE, districts |-> store.districts,
              postOffices |-> store.postOffices]
        ELSE IF Kind(postal_data) # "array"
        THEN [threw |-> TRUE, districts |-> <<>>, postOffices |-> <<>>]
        ELSE LET built == ProcessData(GoodPrefix(postal_data.items))
             IN  [threw |-> GoodPrefix(postal_data.items) # postal_data.items,
                  districts |-> built.districts, postOffices |-> built.postOffices]

\* the header line of npm.txt
sHeader ==
    <<"D", "i", "s", "t", "r", "i", "c", "t", ",", "P", "o", "s", "t", " ", "O", "f", "f", "i", "c", "e", ",", "P", "o", "s", "t", "a", "l", "/", "P", "i", "n", " ", "C", "o", "d", "e", ",", "P", "o", "s", "t", " ", "O", "f", "f", "i", "c", "e", " ", "T", "y", "p", "e">>

\* npm.txt with three well-formed lines
CsvClean ==
    sHeader \o <<"\n">>
    \o sKathmandu \o <<",">> \o sKathmandu \o <<",">> \o s44600 \o <<",">> \o sGPO \o <<"\n">>
    \o sLalitpur \o <<",">> \o sLalitpur \o <<",">> \o s44700 \o <<",">> \o sDPO \o <<"\n">>
    \o sParsa \o <<",">> \o sBirganj \o <<",">> \o s44300 \o <<",">> \o sDPO \o <<"\n">>

\* npm.txt with a quoted field, padded fields, a misspelt district, a line of
\* two fields, an empty line and a postal code that comes twice
CsvRaw ==
    sHeader \o <<"\n">>
    \o sChitawan \o <<",", "\"">> \o sNayaBazar \o <<"\"", ",">> \o s44200 \o <<",">> \o sAPO \o <<"\n">>
    \o sKathmanduPadded \o <<",">> \o sKathmandu \o <<",", " ">> \o s44600 \o <<",">> \o sGPO \o <<"\r", "\n">>
    \o sLalitpur \o <<",">> \o sLalitpur \o <<"\n">>
    \o <<"\n">>
    \o sChitwan \o <<",">> \o sKalimati \o <<",">> \o s44200 \o <<",">> \o sAPO

\* a cached document written by an earlier load
Cached(postal_data) ==
    [kind |-> "object",
     postal_data |-> postal_data,
     metadata |-> [totalRecords |-> 0, lastUpdated |-> "earlier"]]

\* data/postal-data.json as a load can find it
JsonFiles ==
    {Absent, Unreadable, Malformed,
     JsonText(NULL),
     JsonText([kind |-> "object"]),
     JsonText(Cached(Str(s_xyz))),
     JsonText(Cached(Arr(<<>>))),
     JsonText(Cached(Arr(SourceClean))),
     JsonText(Cached(Arr(SourceRaw))),
     JsonText(Cached(Arr(<<SourceClean[1], NULL, SourceClean[2]>>))),
     JsonText(Cached(Arr(<<SourceClean[1], SourceClean[2], [kind |-> "object"]>>)))}

\* npm.txt as a load can find it
CsvFiles == {Absent, CsvText(<<>>), CsvText(CsvClean), CsvText(CsvRaw)}

----------------------------------------------------------------------------
(* Arrays *)

\* Array.prototype.sort with a consistent comparator: the stable ordering in
\* which a comes before b whenever Before(a, b) (the comparator is negative)
StableSort(seq, Before(_, _)) ==
    LET n == Len(seq)
        rank == [i \in 1..n |->
                    Cardinality({j \in 1..n :
                        \/ Before(seq[j], seq[i])
                        \/ (~Before(seq[i], seq[j]) /\ j < i)}) + 1]
    IN  [k \in 1..n |-> seq[CHOOSE i \in 1..n : rank[i] = k]]

\* Array.prototype.slice(0, end)
Slice0(seq, end) ==
    LET stop == IF end < 0 THEN Max2(Len(seq) + end, 0) ELSE Min2(end, Len(seq))
    IN  SubSeq(seq, 1, stop)

\* Array.prototype.filter
FilterSeq(seq, Keep(_)) == SelectSeq(seq, Keep)

----------------------------------------------------------------------------
(* NepalGeoData.search *)

\* the district branch of search: one scored result per district
DistrictResults(normalizedQuery) ==
    [i \in 1..Len(districts) |->
        [type |-> "district", name |-> districts[i].name,
         district |-> UNDEFINED, postalCode |-> UNDEFINED,
         relevance |-> CalculateRelevance(districts[i].name, normalizedQuery)]]

\* the post office branch of search: name relevance against the normalized
\* query, postal relevance 90 when the code includes the raw query
PostOfficeResults(query, normalizedQuery) ==
    [i \in 1..Len(postOffices) |->
        LET po == postOffices[i]
            nameRelevance == CalculateRelevance(po.name, normalizedQuery)
            postalRelevance == IF Includes(po.postalCode, query) THEN 90 ELSE 0
        IN  [type |-> "postOffice", name |-> po.name,
             district |-> Str(po.district), postalCode |-> Str(po.postalCode),
             relevance |-> Max2(nameRelevance, postalRelevance)]]

HasRelevance(r) == r.relevance > 0

\* a threshold of search that keeps every scored result
AnyRelevance(r) == r.relevance > 0

\* the threshold of search: .filter(r => r.relevance > 20)
AboveThreshold(r) == r.relevance > 20

\* the comparator of search turned round: least relevant first
LessRelevant(a, b) == a.relevance < b.relevance

MoreRelevant(a, b) == a.relevance > b.relevance

\* NepalGeoData.search(query, type), query a string
Search(query, type) ==
    LET normalizedQuery == Trim(ToLowerCase(query))
        ds == IF type \in {"all", "district"}
              THEN FilterSeq(DistrictResults(normalizedQuery), HasRelevance)
              ELSE <<>>
        ps == IF type \in {"all", "postOffice"}
              THEN FilterSeq(PostOfficeResults(query, normalizedQuery), HasRelevance)
              ELSE <<>>
    IN  StableSort(FilterSeq(ds \o ps, AboveThreshold), MoreRelevant)

----------------------------------------------------------------------------
(* Query Router: GeoSearch *)

\* GeoSearch.determineMatchType
DetermineMatchType(query, r) ==
    LET normalizedQuery == ToLowerCase(query)
        normalizedName == ToLowerCase(r.name)
    IN  IF normalizedName = normalizedQuery THEN "exact"
        ELSE IF StartsWith(normalizedName, normalizedQuery) THEN "prefix"
        ELSE IF Includes(normalizedName, normalizedQuery) THEN "contains"
        ELSE IF Truthy(r.postalCode) /\ Includes(r.postalCode.s, query) THEN "postal_code"
        ELSE "fuzzy"

\* result.district || '' and result.postalCode || ''
OrEmpty(v) == IF Truthy(v) THEN v.s ELSE <<>>

\* a key that tells results of one place apart by their match type, so that
\* removeDuplicates removes nothing searchByQuery produces
DedupKeyWithMatchType(r) ==
    <<r.type, r.matchType>> \o <<"-">> \o r.name \o <<"-">> \o OrEmpty(r.district)
                            \o <<"-">> \o OrEmpty(r.postalCode)

\* the key of removeDuplicates: `${type}-${name}-${district || ''}-${postalCode || ''}`
\* (the type is kept as one symbol: it holds no "-")
DedupKey(r) ==
    <<r.type>> \o <<"-">> \o r.name \o <<"-">> \o OrEmpty(r.district)
               \o <<"-">> \o OrEmpty(r.postalCode)

\* a removeDuplicates that keeps the last result of every key
RemoveDuplicatesKeepLast(results) ==
    LET kept == {i \in 1..Len(results) :
                    \A j \in (i + 1)..Len(results) :
                        DedupKey(results[j]) # DedupKey(results[i])}
        n == Cardinality(kept)
        nth(k) == CHOOSE i \in kept : Cardinality({j \in kept : j < i}) = k - 1
    IN  [k \in 1..n |-> results[nth(k)]]

\* GeoSearch.removeDuplicates: a result is kept unless an earlier one has its key
RemoveDuplicates(results) ==
    LET kept == {i \in 1..Len(results) :
                    \A j \in 1..(i - 1) : DedupKey(results[j]) # DedupKey(results[i])}
        n == Cardinality(kept)
        nth(k) == CHOOSE i \in kept : Cardinality({j \in kept : j < i}) = k - 1
    IN  [k \in 1..n |-> results[nth(k)]]

\* the matchTypePriority table of sortResults (|| 0 for any other match type)
MatchTypePriority(matchType) ==
    CASE matchType = "exact" -> 5
      [] matchType = "exact_postal" -> 5
      [] matchType = "prefix" -> 4
      [] matchType = "contains" -> 3
      [] matchType = "postal_code" -> 2
      [] matchType = "fuzzy" -> 1
      [] matchType = "advanced_search" -> 1
      [] OTHER -> 0

\* the comparator of the 'relevance' case of sortResults is negative
RankedBefore(a, b) ==
    LET aPriority == MatchTypePriority(a.matchType)
        bPriority == MatchTypePriority(b.matchType)
    IN  IF aPriority # bPriority THEN aPriority > bPriority
        ELSE a.relevance > b.relevance

\* String.prototype.localeCompare, reduced to what orders the strings of the
\* model: letters alphabetically whatever their case, after space,
\* punctuation and digits; between strings equal up to case, lower case first
CollationOrder ==
    << " ", "-", ".", "0", "1", "2", "3", "4", "5", "6", "7", "8", "9",
       "a", "b", "c", "d", "e", "f", "g", "h", "i", "j", "k", "l", "m",
       "n", "o", "p", "q", "r", "s", "t", "u", "v", "w", "x", "y", "z" >>

CharRank(c) == CHOOSE k \in 1..Len(CollationOrder) : CollationOrder[k] = ToLowerChar(c)

\* lexicographic order of two sequences of ranks
RECURSIVE RanksLess(_, _)
RanksLess(a, b) ==
    IF b = <<>> THEN FALSE
    ELSE IF a = <<>> THEN TRUE
    ELSE IF Head(a) # Head(b) THEN Head(a) < Head(b)
    ELSE RanksLess(Tail(a), Tail(b))

CaseRank(c) == IF ToLowerChar(c) = c THEN 0 ELSE 1

\* a.localeCompare(b) < 0
LocaleLess(a, b) ==
    IF ToLowerCase(a) # ToLowerCase(b)
    THEN RanksLess([i \in 1..Len(a) |-> CharRank(a[i])], [i \in 1..Len(b) |-> CharRank(b[i])])
    ELSE RanksLess([i \in 1..Len(a) |-> CaseRank(a[i])], [i \in 1..Len(b) |-> CaseRank(b[i])])

NameBefore(a, b) == LocaleLess(a.name, b.name)

DistrictBefore(a, b) ==
    IF OrEmpty(a.district) # OrEmpty(b.district)
    THEN LocaleLess(OrEmpty(a.district), OrEmpty(b.district))
    ELSE LocaleLess(a.name, b.name)

\* GeoSearch.sortResults
SortResults(results, sortBy) ==
    CASE sortBy = "name" -> StableSort(results, NameBefore)
      [] sortBy = "district" -> StableSort(results, DistrictBefore)
      [] OTHER -> StableSort(results, RankedBefore)

\* GeoSearch.searchByPostalCode
SearchByPostalCode(postalCode) == GetPostOfficeByCode(postalCode)

\* an option of a destructured options object: its default when undefined
Option(v, default) == IF Kind(v) = "undefined" THEN default ELSE v.n

\* the exact_postal entry of searchByQuery, when the trimmed query is five
\* digits and a post office carries it
ExactPostalResults(query) ==
    IF IsFiveDigits(Trim(query)) /\ Truthy(SearchByPostalCode(Trim(query)))
    THEN LET po == SearchByPostalCode(Trim(query))
         IN  << [type |-> "postOffice", name |-> po.name,
                 district |-> Str(po.district), postalCode |-> Str(po.postalCode),
                 relevance |-> 100, matchType |-> "exact_postal"] >>
    ELSE <<>>

WithMatchType(query, r) ==
    [type |-> r.type, name |-> r.name, district |-> r.district,
     postalCode |-> r.postalCode, relevance |-> r.relevance,
     matchType |-> DetermineMatchType(query, r)]

\* the forEach of searchByQuery: result.relevance >= minRelevance, with
\* minRelevance given in tenths
ScoredResults(query, includeType, minRelevance10) ==
    LET searchResults == Search(query, includeType)
        Relevant(r) == r.relevance * 10 >= minRelevance10
        kept == FilterSeq(searchResults, Relevant)
    IN  [i \in 1..Len(kept) |-> WithMatchType(query, kept[i])]

\* a searchByQuery that truncates to the limit before it ranks
RankedResultsOfFirst(query, options) ==
    LET minRelevance10 == Option(options.minRelevance10, 3)
        includeType == IF options.includeType = "default" THEN "all"
                       ELSE options.includeType
        sortBy == IF options.sortBy = "default" THEN "relevance" ELSE options.sortBy
        results == ExactPostalResults(query)
                   \o ScoredResults(query, includeType, minRelevance10)
    IN  SortResults(Slice0(RemoveDuplicates(results), Option(options.limit, 10)), sortBy)

\* the results of searchByQuery after removeDuplicates and sortResults,
\* before the final slice
RankedResults(query, options) ==
    LET minRelevance10 == Option(options.minRelevance10, 3)
        includeType == IF options.includeType = "default" THEN "all"
                       ELSE options.includeType
        sortBy == IF options.sortBy = "default" THEN "relevance" ELSE options.sortBy
        results == ExactPostalResults(query)
                   \o ScoredResults(query, includeType, minRelevance10)
    IN  SortResults(RemoveDuplicates(results), sortBy)

\* GeoSearch.searchByQuery(query, options): query any JS value; options the
\* options object, "default" standing for an option left out
SearchByQuery(query, options) ==
    IF ~Truthy(query) \/ ~IsString(query) THEN Return(<<>>)
    ELSE Return(Slice0(RankedResults(query.s, options), Option(options.limit, 10)))

\* a district or post office type has a main office
IsMainOfficeType(type) == type = sDPO \/ type = sGPO

\* allPostOffices.find(p => p.name === result.name && p.district === result.district)
FindPostOffice(name, district) ==
    LET hits == {i \in 1..Len(postOffices) :
                    postOffices[i].name = name /\ Str(postOffices[i].district) = district}
    IN  IF hits = {} THEN UNDEFINED
        ELSE postOffices[CHOOSE i \in hits : \A j \in hits : i <= j]

\* the stats of a searchDistricts result, when asked for and the district exists
DistrictStats(name, includeStats) ==
    LET district == GetDistrictByName(name)
    IN  IF includeStats /\ Truthy(district)
        THEN [postOfficeCount |-> district.postOfficeCount,
              hasMainOffice |-> \E i \in 1..Len(district.postOffices) :
                                    IsMainOfficeType(district.postOffices[i].type)]
        ELSE UNDEFINED

\* GeoSearch.searchDistricts(query, options): query any JS value.  There is no
\* guard: geoData.search calls query.toLowerCase()
SearchDistricts(query, options) ==
    IF ~IsString(query) THEN Throw("TypeError")
    ELSE LET results == Slice0(Search(query.s, "district"), Option(options.limit, 5))
         IN  Return([i \in 1..Len(results) |->
                        [type |-> "district", name |-> results[i].name,
                         relevance |-> results[i].relevance,
                         matchType |-> DetermineMatchType(query.s, results[i]),
                         stats |-> DistrictStats(results[i].name, options.includeStats)]])

\* GeoSearch.searchPostOffices(query, options): options.district and
\* options.type are JS values (null when left out)
SearchPostOffices(query, options) ==
    IF ~IsString(query) THEN Throw("TypeError")
    ELSE LET found == Search(query.s, "postOffice")
             InDistrict(r) == /\ Truthy(r.district)
                              /\ ToLowerCase(r.district.s) = ToLowerCase(options.district.s)
             OfType(r) == LET po == FindPostOffice(r.name, r.district)
                          IN  Truthy(po) /\ Str(po.type) = options.type
             byDistrict == IF Truthy(options.district)
                           THEN FilterSeq(found, InDistrict) ELSE found
             byType == IF Truthy(options.type)
                       THEN FilterSeq(byDistrict, OfType) ELSE byDistrict
             results == Slice0(byType, Option(options.limit, 10))
             Details(r) == LET po == FindPostOffice(r.name, r.district)
                           IN  IF options.includeDetails /\ Truthy(po)
                               THEN [officeType |-> po.type,
                                     isMainOffice |-> IsMainOfficeType(po.type)]
                               ELSE UNDEFINED
         IN  IF /\ Truthy(options.district) /\ ~IsString(options.district)
                /\ \E i \in 1..Len(found) : Truthy(found[i].district)
             THEN Throw("TypeError")
             ELSE Return([i \in 1..Len(results) |->
                        [type |-> "postOffice", name |-> results[i].name,
                         district |-> results[i].district,
                         postalCode |-> results[i].postalCode,
                         relevance |-> results[i].relevance,
                         matchType |-> DetermineMatchType(query.s, results[i]),
                         details |-> Details(results[i])]])

\* not a number
NaN == [kind |-> "NaN"]

IsNaN(v) == Kind(v) = "NaN"

\* the value of a string of digits
RECURSIVE DigitsValue(_, _)
DigitsValue(s, acc) ==
    IF s = <<>> \/ Head(s) \notin Digits THEN acc
    ELSE DigitsValue(Tail(s),
                     10 * acc + (CHOOSE d \in 0..9 :
                                    <<"0", "1", "2", "3", "4", "5", "6", "7", "8", "9">>[d + 1]
                                        = Head(s)))

\* parseInt(v): the leading digits of a string after leading white space (the
\* strings of the model carry no sign), a number itself, NaN otherwise
ParseInt(v) ==
    CASE Kind(v) = "number" -> Num(v.n)
      [] Kind(v) = "string" ->
            LET t == TrimStart(v.s)
            IN  IF t = <<>> \/ Head(t) \notin Digits THEN NaN
                ELSE Num(DigitsValue(t, 0))
      [] OTHER -> NaN

\* code >= start && code <= end: every comparison with NaN is false
InRange(code, start, end) ==
    /\ ~IsNaN(code) /\ ~IsNaN(start) /\ ~IsNaN(end)
    /\ code.n >= start.n /\ code.n <= end.n

\* a criteria object of advancedSearch with every field left out
NoCriteria ==
    [query |-> UNDEFINED, district |-> UNDEFINED, postalCodeRange |-> UNDEFINED,
     postOfficeType |-> UNDEFINED, limit |-> UNDEFINED]

\* GeoSearch.advancedSearch(criteria): criteria any JS value.  Destructuring
\* null or undefined throws; any other value without the fields reads as
\* undefined fields; district.toLowerCase() and query.toLowerCase() throw on a
\* truthy value that is no string
AdvancedSearch(criteria) ==
    IF Kind(criteria) \in {"null", "undefined"} THEN Throw("TypeError")
    ELSE LET c == IF Kind(criteria) = "criteria" THEN criteria ELSE NoCriteria
             InDistrict(po) == Includes(ToLowerCase(po.district), ToLowerCase(c.district.s))
             OfType(po) == Str(po.type) = c.postOfficeType
             InCodeRange(po) == InRange(ParseInt(Str(po.postalCode)),
                                        ParseInt(c.postalCodeRange.start),
                                        ParseInt(c.postalCodeRange.end))
             Matches(po) == \/ Includes(ToLowerCase(po.name), ToLowerCase(c.query.s))
                            \/ Includes(ToLowerCase(po.district), ToLowerCase(c.query.s))
                            \/ Includes(po.postalCode, c.query.s)
             all == GetAllPostOffices
             byDistrict == IF Truthy(c.district) THEN FilterSeq(all, InDistrict) ELSE all
             byType == IF Truthy(c.postOfficeType) THEN FilterSeq(byDistrict, OfType)
                       ELSE byDistrict
             byRange == IF /\ Truthy(c.postalCodeRange)
                           /\ Truthy(c.postalCodeRange.start)
                           /\ Truthy(c.postalCodeRange.end)
                        THEN FilterSeq(byType, InCodeRange) ELSE byType
             byQuery == IF Truthy(c.query) THEN FilterSeq(byRange, Matches) ELSE byRange
             results == [i \in 1..Len(byQuery) |->
                            [type |-> "postOffice", name |-> byQuery[i].name,
                             district |-> Str(byQuery[i].district),
                             postalCode |-> Str(byQuery[i].postalCode),
                             officeType |-> byQuery[i].type,
                             relevance |-> IF Truthy(c.query)
                                           THEN CalculateRelevance(byQuery[i].name, c.query.s)
                                           ELSE 100,
                             matchType |-> "advanced_search"]]
         IN  IF Truthy(c.district) /\ ~IsString(c.district) /\ all # <<>>
             THEN Throw("TypeError")
             ELSE IF Truthy(c.query) /\ ~IsString(c.query) THEN Throw("TypeError")
             ELSE Return(Slice0(StableSort(results, MoreRelevant), Option(c.limit, 20)))

\* a list that keeps every name it is fed
EveryNameInOrder(names) == names

\* the insertion order of a Set fed the names of seq: first occurrences
DistinctInOrder(names) ==
    LET kept == {i \in 1..Len(names) : \A j \in 1..(i - 1) : names[j] # names[i]}
        nth(k) == CHOOSE i \in kept : Cardinality({j \in kept : j < i}) = k - 1
    IN  [k \in 1..Cardinality(kept) |-> names[nth(k)]]

\* partialQuery.length: of a string or an array, undefined otherwise
LengthOf(v) ==
    CASE Kind(v) = "string" -> Num(Len(v.s))
      [] Kind(v) = "array" -> Num(Len(v.items))
      [] OTHER -> UNDEFINED

\* GeoSearch.getSuggestions(partialQuery, options): partialQuery any JS value.
\* A truthy value whose length is not below 2 (undefined < 2 is false) goes on
\* to partialQuery.toLowerCase()
GetSuggestions(partialQuery, options) ==
    IF ~Truthy(partialQuery)
       \/ (Kind(LengthOf(partialQuery)) = "number" /\ LengthOf(partialQuery).n < 2)
    THEN Return(<<>>)
    ELSE IF ~IsString(partialQuery) THEN Throw("TypeError")
    ELSE LET normalizedQuery == ToLowerCase(partialQuery.s)
             type == IF options.type = "default" THEN "all" ELSE options.type
             Suggested(x) == StartsWith(ToLowerCase(x.name), normalizedQuery)
             ds == IF type \in {"all", "district"}
                   THEN FilterSeq(GetAllDistricts, Suggested) ELSE <<>>
             ps == IF type \in {"all", "postOffice"}
                   THEN FilterSeq(GetAllPostOffices, Suggested) ELSE <<>>
             names == [i \in 1..(Len(ds) + Len(ps)) |->
                          IF i <= Len(ds) THEN ds[i].name ELSE ps[i - Len(ds)].name]
         IN  Return(Slice0(DistinctInOrder(names), Option(options.limit, 5)))

----------------------------------------------------------------------------
(* PostalUtils *)

\* PostalUtils.getPostalInfo: the info record, or NULL
GetPostalInfo(postalCode) ==
    IF ~Truthy(postalCode) \/ ~IsString(postalCode) THEN NULL
    ELSE LET postOffice == GetPostOfficeByCode(Trim(postalCode.s))
         IN  IF ~Truthy(postOffice) THEN NULL
             ELSE [postalCode |-> postOffice.postalCode, postOffice |-> postOffice.name,
                   district |-> postOffice.district, type |-> postOffice.type,
                   isMainOffice |-> IsMainOfficeType(postOffice.type)]

\* PostalUtils.validatePostalCode
PostalValidatePostalCode(postalCode) ==
    IF ~Truthy(postalCode) \/ ~IsString(postalCode)
    THEN Return([isValid |-> FALSE,
                 error |-> "Postal code is required and must be a string"])
    ELSE LET trimmed == Trim(postalCode.s)
         IN  IF ~IsFiveDigits(trimmed)
             THEN Return([isValid |-> FALSE,
                          error |-> "Nepal postal codes must be exactly 5 digits"])
             ELSE LET exists == GetPostalInfo(Str(trimmed)) # NULL
                  IN  Return([isValid |-> exists,
                              error |-> IF exists THEN "null"
                                        ELSE "Postal code does not exist in Nepal",
                              postalCode |-> trimmed])

----------------------------------------------------------------------------
(* Validation Layer: LocationValidator *)

\* a similarity that divides by the length of the first string
CalculateSimilarityOfFirst(str1, str2) ==
    LET maxLength == Max2(Len(str1), Len(str2))
        length == IF Len(str1) = 0 THEN maxLength ELSE Len(str1)
    IN  IF maxLength = 0 THEN [num |-> 1, den |-> 1]
        ELSE [num |-> Max2(length - LevenshteinDistance(str1, str2), 0), den |-> length]

\* LocationValidator.calculateSimilarity, as the fraction num / den: the
\* matrix is the one of levenshteinDistance; 1 when both strings are empty
CalculateSimilarity(str1, str2) ==
    LET maxLength == Max2(Len(str1), Len(str2))
    IN  IF maxLength = 0 THEN [num |-> 1, den |-> 1]
        ELSE [num |-> maxLength - LevenshteinDistance(str1, str2), den |-> maxLength]

\* item.similarity > 0.3
IsSimilar(item) == 10 * item.similarity.num > 3 * item.similarity.den

\* b.similarity - a.similarity is negative
MoreSimilar(a, b) ==
    a.similarity.num * b.similarity.den > b.similarity.num * a.similarity.den

\* LocationValidator.findSimilarDistricts: at most 3 district names
FindSimilarDistricts(input) ==
    LET ds == GetAllDistricts
        similarities == [i \in 1..Len(ds) |->
            [name |-> ds[i].name,
             similarity |-> CalculateSimilarity(ToLowerCase(input), ToLowerCase(ds[i].name))]]
        best == Slice0(StableSort(FilterSeq(similarities, IsSimilar), MoreSimilar), 3)
    IN  [i \in 1..Len(best) |-> best[i].name]

\* a findSimilarPostOffices that searches the whole store, not pos
FindSimilarPostOfficesAnywhere(input, pos) ==
    LET all == GetAllPostOffices
        similarities == [i \in 1..Len(all) |->
            [name |-> all[i].name, postalCode |-> all[i].postalCode,
             type |-> all[i].type, district |-> all[i].district,
             similarity |-> CalculateSimilarity(ToLowerCase(input), ToLowerCase(all[i].name))]]
    IN  Slice0(StableSort(FilterSeq(similarities, IsSimilar), MoreSimilar), 5)

\* LocationValidator.findSimilarPostOffices: at most 5 post offices of pos
FindSimilarPostOffices(input, pos) ==
    LET similarities == [i \in 1..Len(pos) |->
            [name |-> pos[i].name, postalCode |-> pos[i].postalCode,
             type |-> pos[i].type, district |-> pos[i].district,
             similarity |-> CalculateSimilarity(ToLowerCase(input), ToLowerCase(pos[i].name))]]
    IN  Slice0(StableSort(FilterSeq(similarities, IsSimilar), MoreSimilar), 5)

\* LocationValidator.validateDistrict(district): district any JS value
ValidateDistrict(district) ==
    IF ~Truthy(district) \/ ~IsString(district)
    THEN Return([isValid |-> FALSE,
                 error |-> "District name is required and must be a string",
                 suggestions |-> <<>>])
    ELSE LET districtData == GetDistrictByName(district.s)
         IN  IF Truthy(districtData)
             THEN Return([isValid |-> TRUE, district |-> districtData, suggestions |-> <<>>])
             ELSE Return([isValid |-> FALSE, error |-> "District not found",
                          suggestions |-> FindSimilarDistricts(district.s)])

\* LocationValidator.validatePostalCode(postalCode): postalCode any JS value.
\* isValid is postalInfo !== null, and find gives undefined for a code that
\* no post office carries
ValidatePostalCode(postalCode) ==
    IF ~Truthy(postalCode) \/ ~IsString(postalCode)
    THEN Return([isValid |-> FALSE,
                 error |-> "Postal code is required and must be a string"])
    ELSE LET trimmed == Trim(postalCode.s)
         IN  IF ~IsFiveDigits(trimmed)
             THEN Return([isValid |-> FALSE,
                          error |-> "Nepal postal codes must be exactly 5 digits"])
             ELSE LET postalInfo == GetPostOfficeByCode(trimmed)
                  IN  Return([isValid |-> postalInfo # NULL,
                              error |-> IF Truthy(postalInfo) THEN "null"
                                        ELSE "Postal code does not exist",
                              postalInfo |-> postalInfo])

\* LocationValidator.validatePostOffice(postOffice, district): both any JS
\* value, district null when left out.  district.toLowerCase() runs in the
\* filter callback, once per post office of the store
ValidatePostOffice(postOffice, district) ==
    IF ~Truthy(postOffice) \/ ~IsString(postOffice)
    THEN Return([isValid |-> FALSE,
                 error |-> "Post office name is required and must be a string",
                 suggestions |-> <<>>])
    ELSE IF Truthy(district) /\ ~IsString(district) /\ GetAllPostOffices # <<>>
    THEN Throw("TypeError")
    ELSE LET InDistrict(po) == ToLowerCase(po.district) = ToLowerCase(district.s)
             pos == IF Truthy(district) THEN FilterSeq(GetAllPostOffices, InDistrict)
                    ELSE GetAllPostOffices
             Named(po) == ToLowerCase(po.name) = ToLowerCase(postOffice.s)
             exact == FilterSeq(pos, Named)
             suggestions == Slice0(FindSimilarPostOffices(postOffice.s, pos), 3)
         IN  IF exact # <<>>
             THEN Return([isValid |-> TRUE, postOffice |-> exact[1], suggestions |-> <<>>])
             ELSE Return([isValid |-> FALSE, error |-> "Post office not found",
                          suggestions |-> [i \in 1..Len(suggestions) |-> suggestions[i].name]])

\* an address object; a field left out is UNDEFINED
Address(district, postalCode, postOffice, ward, municipality) ==
    [kind |-> "address", district |-> district, postalCode |-> postalCode,
     postOffice |-> postOffice, ward |-> ward, municipality |-> municipality]

EmptyAddress == Address(UNDEFINED, UNDEFINED, UNDEFINED, UNDEFINED, UNDEFINED)

\* the fields of an object passed as an address: an array has none of them
AddressFields(address) == IF Kind(address) = "address" THEN address ELSE EmptyAddress

\* address[field] !== undefined && address[field] !== null && address[field] !== ''
IsPresent(v) == Kind(v) \notin {"undefined", "null"} /\ v # Str(<<>>)

\* LocationValidator.calculateCompleteness, the weights in hundredths
CalculateCompleteness(a) ==
    LET fields == <<"district", "municipality", "ward", "postOffice", "postalCode">>
        weights == [district |-> 30, municipality |-> 20, ward |-> 20,
                    postOffice |-> 15, postalCode |-> 15]
        Present(f) == IsPresent(a[f])
        Missing(f) == ~IsPresent(a[f])
        present == FilterSeq(fields, Present)
        score == IF present = <<>> THEN 0
                 ELSE LET sum[i \in 0..Len(present)] ==
                              IF i = 0 THEN 0 ELSE sum[i - 1] + weights[present[i]]
                      IN  sum[Len(present)]
    IN  [score |-> score, present |-> present, missing |-> FilterSeq(fields, Missing),
         isComplete |-> score >= 80]

\* LocationValidator.getRecommendation
GetRecommendation(a, errors, warnings) ==
    LET recommendations ==
               (IF Len(errors) > 0
                THEN <<"Fix validation errors before using this address">> ELSE <<>>)
            \o (IF ~Truthy(a.district)
                THEN <<"Add district name for better address identification">> ELSE <<>>)
            \o (IF ~Truthy(a.postalCode)
                THEN <<"Include postal code for accurate mail delivery">> ELSE <<>>)
            \o (IF ~Truthy(a.municipality) /\ ~Truthy(a.postOffice)
                THEN <<"Add municipality or post office for precise location">> ELSE <<>>)
            \o (IF ~Truthy(a.ward)
                THEN <<"Include ward number for local administrative purposes">> ELSE <<>>)
            \o (IF Len(warnings) > 0 /\ Len(errors) = 0
                THEN <<"Address is valid but could be more complete">> ELSE <<>>)
    IN  IF recommendations = <<>> THEN <<"Address is complete and valid">>
        ELSE recommendations

\* an entry of errors or suggestions: the text and the value interpolated in it
Message(text, arg) == [text |-> text, arg |-> arg]

\* LocationValidator.validateAddress(address): address any JS value
ValidateAddress(address) ==
    IF ~Truthy(address) \/ Kind(address) \notin {"address", "array", "object"}
    THEN Return([isValid |-> FALSE,
                 errors |-> <<Message("Address must be a valid object", UNDEFINED)>>,
                 warnings |-> <<>>, suggestions |-> <<>>])
    ELSE
    LET a == AddressFields(address)
        districtResult == ValidateDistrict(a.district).value
        postalResult == ValidatePostalCode(a.postalCode).value
        postalInfo == GetPostOfficeByCode(a.postalCode.s)
        crossChecked == /\ Truthy(a.postalCode) /\ postalResult.isValid
                        /\ Truthy(a.district) /\ Truthy(postalInfo)
        postOfficeCall == ValidatePostOffice(a.postOffice, a.district)
        postOfficeResult == postOfficeCall.value
        districtErrors ==
            IF Truthy(a.district) /\ ~districtResult.isValid
            THEN <<Message("Invalid district", a.district)>> ELSE <<>>
        districtSuggestions ==
            IF /\ Truthy(a.district) /\ ~districtResult.isValid
               /\ Len(districtResult.suggestions) > 0
            THEN <<Message("Did you mean", districtResult.suggestions)>> ELSE <<>>
        warnings ==
            IF Truthy(a.district) THEN <<>> ELSE <<"District not specified">>
        mismatch ==
            /\ crossChecked
            /\ ToLowerCase(postalInfo.district) # ToLowerCase(a.district.s)
        postalErrors ==
            IF ~Truthy(a.postalCode) THEN <<>>
            ELSE IF ~postalResult.isValid
            THEN <<Message("Invalid postal code", a.postalCode)>>
            ELSE IF mismatch
            THEN <<Message("Postal code does not belong to district",
                           <<a.postalCode, a.district>>)>>
            ELSE <<>>
        postalSuggestions ==
            IF Truthy(a.postalCode) /\ postalResult.isValid /\ mismatch
            THEN <<Message("Postal code belongs to", postalInfo.district)>> ELSE <<>>
        postOfficeErrors ==
            IF Truthy(a.postOffice) /\ ~postOfficeResult.isValid
            THEN <<Message("Invalid post office", a.postOffice)>> ELSE <<>>
        postOfficeSuggestions ==
            IF /\ Truthy(a.postOffice) /\ ~postOfficeResult.isValid
               /\ Len(postOfficeResult.suggestions) > 0
            THEN <<Message("Similar post offices", postOfficeResult.suggestions)>>
            ELSE <<>>
        wardErrors ==
            IF Kind(a.ward) = "undefined" THEN <<>>
            ELSE IF Kind(a.ward) # "number" \/ a.ward.n < 1 \/ a.ward.n > 35
            THEN <<Message("Ward number must be an integer between 1 and 35", UNDEFINED)>>
            ELSE <<>>
        municipalityErrors ==
            IF Truthy(a.municipality)
               /\ (~IsString(a.municipality) \/ Len(Trim(a.municipality.s)) < 2)
            THEN <<Message("Municipality name must be a valid string", UNDEFINED)>>
            ELSE <<>>
        errors == districtErrors \o postalErrors \o postOfficeErrors
                  \o wardErrors \o municipalityErrors
        suggestions == districtSuggestions \o postalSuggestions \o postOfficeSuggestions
    IN  \* address.district.toLowerCase() in the cross-validation
        IF crossChecked /\ ~IsString(a.district) THEN Throw("TypeError")
        ELSE IF Truthy(a.postOffice) /\ postOfficeCall.throws THEN Throw("TypeError")
        ELSE Return([isValid |-> Len(errors) = 0, errors |-> errors,
                     warnings |-> warnings, suggestions |-> suggestions,
                     completeness |-> CalculateCompleteness(a),
                     recommendation |-> GetRecommendation(a, errors, warnings)])

\* LocationValidator.batchValidate(addresses): addresses any JS value
BatchValidate(addresses) ==
    IF Kind(addresses) # "array" THEN Throw("Addresses must be an array")
    ELSE LET items == addresses.items
         IN  IF \E i \in 1..Len(items) : ValidateAddress(items[i]).throws
             THEN Throw("TypeError")
             ELSE Return([i \in 1..Len(items) |->
                            [index |-> i - 1, address |-> items[i],
                             validation |-> ValidateAddress(items[i]).value]])

----------------------------------------------------------------------------
(* DistrictUtils and NepalGeoHelper: statistics and export *)

\* the comparator (a, b) => b.postOfficeCount - a.postOfficeCount
MoreOffices(a, b) == a.postOfficeCount > b.postOfficeCount

\* the comparator (a, b) => a.postOfficeCount - b.postOfficeCount
FewerOffices(a, b) == a.postOfficeCount < b.postOfficeCount

\* Array.sort reorders the array it is called on.  With the store's own list
\* as that array the store would take the sorted order
DistrictsSortedInStore(sorted) == sorted

\* The store's districts after Array.sort has reordered the array that
\* getAllDistricts returned: Object.values builds that array anew on every
\* call, so the store keeps its own order
DistrictsAfterSort(sorted) == districts

\* DistrictUtils.getDistrictsWithMostPostOffices(limit = 5): the array sorted
\* in place, and the slice returned
MostPostOffices == StableSort(GetAllDistricts, MoreOffices)

\* DistrictUtils.getDistrictsWithLeastPostOffices(limit = 5)
LeastPostOffices == StableSort(GetAllDistricts, FewerOffices)

\* a lookup that tells capital from small letters
GetDistrictExactCase(name) ==
    LET hits == IF IsString(name)
                THEN {i \in 1..Len(districts) : districts[i].name = Trim(name.s)}
                ELSE {}
    IN  IF hits = {} THEN NULL
        ELSE districts[CHOOSE i \in hits : \A j \in hits : i <= j]

\* DistrictUtils.getDistrictByName: null for anything but a non-empty string
GetDistrict(name) ==
    IF ~Truthy(name) \/ ~IsString(name) THEN NULL ELSE GetDistrictByName(name.s)

\* findIndex(d => d.name === districtName) + 1
RankOf(sorted, districtName) ==
    LET hits == {i \in 1..Len(sorted) : sorted[i].name = districtName.s}
    IN  IF hits = {} THEN 0 ELSE CHOOSE i \in hits : \A j \in hits : i <= j

\* NepalGeoHelper.getDistrictAnalytics(districtName): the fields of the
\* result computed from the store (the district itself and its rankings)
GetDistrictAnalytics(districtName) ==
    LET district == GetDistrict(districtName)
    IN  IF ~Truthy(district) THEN NULL
        ELSE [kind |-> "object",
              name |-> district.name,
              postOfficeCount |-> district.postOfficeCount,
              postOffices |-> district.postOffices,
              rankings |-> [postOfficeCount |-> RankOf(MostPostOffices, districtName),
                            totalDistricts |-> Len(MostPostOffices)]]

\* the main post office of a district for the CSV export: the first D.P.O. or
\* G.P.O., or else the first post office
MainPostOffice(district) ==
    LET mains == {i \in 1..Len(district.postOffices) :
                    IsMainOfficeType(district.postOffices[i].type)}
    IN  IF mains = {} THEN district.postOffices[1]
        ELSE district.postOffices[CHOOSE i \in mains : \A j \in mains : i <= j]

\* DistrictUtils.exportData(format = 'json'): the JSON text stands as the list
\* it serializes, the CSV text as its rows after the header
ExportData(format) ==
    LET fmt == IF format = UNDEFINED THEN Str(<<"j", "s", "o", "n">>) ELSE format
        ds == GetAllDistricts
    IN  IF ~IsString(fmt) THEN Throw("TypeError")
        ELSE IF ToLowerCase(fmt.s) = <<"j", "s", "o", "n">>
             THEN Return([kind |-> "json", districts |-> ds])
        ELSE IF ToLowerCase(fmt.s) = <<"c", "s", "v">>
             THEN Return([kind |-> "csv",
                          rows |-> [i \in 1..Len(ds) |->
                                      <<ds[i].name, ds[i].postOfficeCount,
                                        MainPostOffice(ds[i]).type>>]])
        ELSE Throw("Unsupported export format")

----------------------------------------------------------------------------
(* The calls a client makes *)

\* the characters of the generated queries
GenAlphabet == {"k", "a", " "}

\* every string over GenAlphabet of at most MaxQueryLen characters
GeneratedQueries ==
    UNION {{SubSeq(f, 1, n) : f \in [1..n -> GenAlphabet]} : n \in 0..MaxQueryLen}

\* names, prefixes, abbreviations, typos, padded and multi-word queries, codes
CuratedQueries ==
    {sEmpty, sKathmandu, s_kathmandu, s_KATHMANDU, s_kath, s_Kath, s_kathPadded,
     s_mandu, s_ktm, s_bhkt, s_lalitpurr, sLalitpur, sLalitpor, sBhaktapur, sChitwan,
     sChitawan, s_chit, sKalimati, sKalimaty, sNayaBazar, s_nb, s_pur, s_xyz,
     sParsa, sParbat,
     s_sixTokens, s_abcd, s44600, s44700, s44200, s44614, s99999, s4460, s446,
     s44600Padded}

\* values that are no string, and the falsy strings and numbers
WrongShaped ==
    {NULL, UNDEFINED, Num(0), Num(44600), Arr(<<>>),
     Arr(<<Str(s_kath), Str(s_ktm)>>), [kind |-> "object"]}

\* candidate texts of calculateRelevance
Texts ==
    {sEmpty, sKathmandu, sLalitpur, sBhaktapur, sChitwan, sKalimati, sNayaBazar,
     sKtm, sABCDE, sDcba}

DefaultOptions ==
    [limit |-> UNDEFINED, minRelevance10 |-> UNDEFINED,
     includeType |-> "default", sortBy |-> "default"]

\* the options of searchByQuery: the defaults, and each option set in turn
SearchOptions ==
    {DefaultOptions}
    \cup {[DefaultOptions EXCEPT !.limit = Num(n)] : n \in 0..MaxLimit}
    \cup {[DefaultOptions EXCEPT !.includeType = t] :
            t \in {"all", "district", "postOffice", "province"}}
    \cup {[DefaultOptions EXCEPT !.sortBy = b] : b \in {"relevance", "name", "district"}}
    \cup {[DefaultOptions EXCEPT !.minRelevance10 = Num(m)] : m \in {0, 500, 1000}}
    \cup {[DefaultOptions EXCEPT !.includeType = "district", !.limit = Num(1)]}

Idle == op = "idle"

\* the call op(args) returns (or throws) r; the Dataset Store is only read
Call(name, a, r) ==
    /\ Idle
    /\ op' = name
    /\ args' = a
    /\ result' = r
    /\ UNCHANGED <<districts, postOffices, validated, data, files, pc>>

\* the client takes the result
ReturnToCaller ==
    /\ ~Idle
    /\ op' = "idle"
    /\ args' = <<>>
    /\ result' = Return(UNDEFINED)
    /\ UNCHANGED <<districts, postOffices, validated, data, files, pc>>

CallCalculateRelevance ==
    \E text \in Texts, query \in CuratedQueries \cup GeneratedQueries :
        Call("calculateRelevance", <<text, query>>,
             Return(CalculateRelevance(text, query)))

CallSearch ==
    \E query \in CuratedQueries \cup GeneratedQueries, type \in {"all", "district", "postOffice"} :
        Call("search", <<query, type>>, Return(Search(query, type)))

CallSearchByQuery ==
    \E c \in (CuratedQueries \X SearchOptions)
             \cup (GeneratedQueries \X {DefaultOptions}) :
        Call("searchByQuery", <<Str(c[1]), c[2]>>, SearchByQuery(Str(c[1]), c[2]))

CallSearchByQueryWrongShape ==
    \E query \in WrongShaped :
        Call("searchByQuery", <<query, DefaultOptions>>,
             SearchByQuery(query, DefaultOptions))

\* the options of searchDistricts
DistrictOptions ==
    {[limit |-> UNDEFINED, includeStats |-> FALSE],
     [limit |-> Num(1), includeStats |-> FALSE],
     [limit |-> UNDEFINED, includeStats |-> TRUE]}

CallSearchDistricts ==
    \E query \in {Str(q) : q \in CuratedQueries} \cup WrongShaped,
       options \in DistrictOptions :
        Call("searchDistricts", <<query, options>>, SearchDistricts(query, options))

DefaultPostOfficeOptions ==
    [limit |-> UNDEFINED, district |-> NULL, type |-> NULL, includeDetails |-> FALSE]

\* the options of searchPostOffices
PostOfficeOptions ==
    {DefaultPostOfficeOptions,
     [DefaultPostOfficeOptions EXCEPT !.limit = Num(1)],
     [DefaultPostOfficeOptions EXCEPT !.district = Str(s_kathmandu)],
     [DefaultPostOfficeOptions EXCEPT !.type = Str(sAPO)],
     [DefaultPostOfficeOptions EXCEPT !.includeDetails = TRUE]}

CallSearchPostOffices ==
    \E query \in {Str(q) : q \in CuratedQueries} \cup WrongShaped,
       options \in PostOfficeOptions :
        Call("searchPostOffices", <<query, options>>, SearchPostOffices(query, options))

Criteria(query, district, postalCodeRange, postOfficeType, limit) ==
    [kind |-> "criteria", query |-> query, district |-> district,
     postalCodeRange |-> postalCodeRange, postOfficeType |-> postOfficeType,
     limit |-> limit]

\* the criteria of advancedSearch: a query, each filter, and wrong-shaped fields
CriteriaValues ==
    {Criteria(Str(q), UNDEFINED, UNDEFINED, UNDEFINED, UNDEFINED) : q \in CuratedQueries}
    \cup {Criteria(UNDEFINED, d, UNDEFINED, UNDEFINED, UNDEFINED) :
            d \in {UNDEFINED, Str(s_kath), Str(s_xyz), Num(5)}}
    \cup {Criteria(q, UNDEFINED, UNDEFINED, UNDEFINED, UNDEFINED) :
            q \in {Num(5), Num(0), NULL, Arr(<<>>)}}
    \cup {Criteria(UNDEFINED, UNDEFINED, [start |-> Str(a), end |-> Str(b)],
                   UNDEFINED, UNDEFINED) :
            a \in {s44600, s_xyz}, b \in {s44700, s446}}
    \cup {Criteria(UNDEFINED, UNDEFINED, [start |-> Num(a), end |-> Num(44700)],
                   UNDEFINED, UNDEFINED) : a \in {0, 44600}}
    \cup {Criteria(Str(s_pur), UNDEFINED, UNDEFINED, Str(sDPO), Num(n)) : n \in 0..MaxLimit}

CallAdvancedSearch ==
    \E criteria \in CriteriaValues \cup WrongShaped :
        Call("advancedSearch", <<criteria>>, AdvancedSearch(criteria))

\* the options of getSuggestions
SuggestionOptions ==
    {[limit |-> UNDEFINED, type |-> "default"], [limit |-> Num(1), type |-> "all"],
     [limit |-> UNDEFINED, type |-> "district"],
     [limit |-> UNDEFINED, type |-> "postOffice"]}

CallGetSuggestions ==
    \E partialQuery \in {Str(q) : q \in CuratedQueries \cup {s_ka, s_k}} \cup WrongShaped,
       options \in SuggestionOptions :
        Call("getSuggestions", <<partialQuery, options>>,
             GetSuggestions(partialQuery, options))

\* district names: known, other case, padded, misspelt, unknown, and no string
DistrictValues ==
    {Str(sKathmandu), Str(s_kathmandu), Str(sKathmanduPadded), Str(sLalitpur),
     Str(sLalitpor), Str(sParitpur), Str(sChitawan), Str(s_xyz), Str(sEmpty)}
    \cup WrongShaped

\* postal codes: carried by a post office, carried by none, malformed, padded,
\* and no string
PostalCodeValues ==
    {Str(s44600), Str(s44700), Str(s44200), Str(s99999), Str(s4460), Str(s_xyz),
     Str(s44600Padded), Str(sEmpty)} \cup WrongShaped

\* post office names: known, other case, misspelt, unknown, and no string
PostOfficeValues ==
    {Str(sKalimati), Str(ToLowerCase(sKalimati)), Str(sKalimaty), Str(sKathmandu),
     Str(s_xyz), Str(sEmpty)} \cup WrongShaped

CallValidateDistrict ==
    \E district \in DistrictValues :
        Call("validateDistrict", <<district>>, ValidateDistrict(district))

CallValidatePostalCode ==
    \E postalCode \in PostalCodeValues :
        Call("validatePostalCode", <<postalCode>>, ValidatePostalCode(postalCode))

CallPostalValidatePostalCode ==
    \E postalCode \in PostalCodeValues :
        Call("PostalUtils.validatePostalCode", <<postalCode>>,
             PostalValidatePostalCode(postalCode))

CallValidatePostOffice ==
    \E postOffice \in PostOfficeValues,
       district \in {NULL, Str(sKathmandu), Str(s_kathmandu), Str(sLalitpur), Num(5)} :
        Call("validatePostOffice", <<postOffice, district>>,
             ValidatePostOffice(postOffice, district))

\* addresses: every district, postal code and post office value together, and
\* each ward and municipality value on its own
AddressValues ==
    {Address(d, c, p, UNDEFINED, UNDEFINED) :
        d \in {UNDEFINED, Str(sKathmandu), Str(s_kathmandu), Str(sKathmanduPadded),
               Str(sLalitpur), Str(sLalitpor), Num(5)},
        c \in {UNDEFINED, Str(s44600), Str(s44700), Str(s99999), Str(s4460),
               Str(s44600Padded), Num(44600)},
        p \in {UNDEFINED, Str(sKalimati), Str(sKalimaty), Num(1)}}
    \cup {Address(Str(sParitpur), UNDEFINED, UNDEFINED, UNDEFINED, UNDEFINED)}
    \cup {Address(Str(sKathmandu), Str(s44600), UNDEFINED, w, m) :
            w \in {UNDEFINED, NULL, Num(1), Num(35), Num(36), Num(0), Str(s_k)},
            m \in {UNDEFINED, Str(sKalimati), Str(s_k), Num(5)}}

CallValidateAddress ==
    \E address \in AddressValues \cup WrongShaped :
        Call("validateAddress", <<address>>, ValidateAddress(address))

\* lists of addresses, and values that are no list
AddressLists ==
    {Arr(<<>>),
     Arr(<<Address(Str(sKathmandu), Str(s44600), UNDEFINED, UNDEFINED, UNDEFINED)>>),
     Arr(<<EmptyAddress, NULL,
           Address(Str(sLalitpor), Str(s99999), UNDEFINED, Num(36), UNDEFINED)>>),
     Arr(<<Address(Num(5), Str(s44600), UNDEFINED, UNDEFINED, UNDEFINED)>>)}

CallBatchValidate ==
    \E addresses \in AddressLists \cup WrongShaped :
        Call("batchValidate", <<addresses>>, BatchValidate(addresses))

\* NepalGeoData constructed from a Dataset Source, no call made yet
\* the addresses a client validates more than once
FrameAddresses ==
    {Address(Str(sParitpur), UNDEFINED, UNDEFINED, UNDEFINED, UNDEFINED),
     Address(Str(sLalitpor), Str(s99999), UNDEFINED, UNDEFINED, UNDEFINED),
     Address(Str(sKathmandu), Str(s44600), Str(sKalimaty), UNDEFINED, UNDEFINED)}

\* validateAddress on one of those addresses, noted in the history
CallValidateAddressAgain ==
    \E address \in FrameAddresses :
        /\ Idle
        /\ op' = "validateAddress"
        /\ args' = <<address>>
        /\ result' = ValidateAddress(address)
        /\ validated' = [validated EXCEPT ![address] =
                IF @.calls = 0 THEN [calls |-> 1, first |-> ValidateAddress(address)]
                ELSE [calls |-> 2, first |-> @.first]]
        /\ UNCHANGED <<districts, postOffices, data, files, pc>>

\* a call that sorts the array getAllDistricts returned
CallSorting(name, a, r, sorted) ==
    /\ Idle
    /\ op' = name
    /\ args' = a
    /\ result' = r
    /\ districts' = DistrictsAfterSort(sorted)
    /\ UNCHANGED <<postOffices, validated, data, files, pc>>

\* the limit argument: left out, or a number
LimitValues == {UNDEFINED} \cup {Num(n) : n \in 0..MaxLimit}

CallGetDistrictsWithMostPostOffices ==
    \E limit \in LimitValues :
        CallSorting("getDistrictsWithMostPostOffices", <<limit>>,
                    Return(Arr(Slice0(MostPostOffices, Option(limit, 5)))),
                    MostPostOffices)

CallGetDistrictsWithLeastPostOffices ==
    \E limit \in LimitValues :
        CallSorting("getDistrictsWithLeastPostOffices", <<limit>>,
                    Return(Arr(Slice0(LeastPostOffices, Option(limit, 5)))),
                    LeastPostOffices)

CallGetDistrictAnalytics ==
    \E districtName \in DistrictValues :
        CallSorting("getDistrictAnalytics", <<districtName>>,
                    Return(GetDistrictAnalytics(districtName)),
                    IF Truthy(GetDistrict(districtName)) THEN MostPostOffices
                    ELSE GetAllDistricts)

FormatValues ==
    {UNDEFINED, Str(<<"j", "s", "o", "n">>), Str(<<"C", "S", "V">>),
     Str(<<"x", "m", "l">>), Num(5)}

CallExportData ==
    \E format \in FormatValues :
        Call("exportData", <<format>>, ExportData(format))

Init ==
    /\ \E source \in Sources :
        /\ districts = ProcessData(source).districts
        /\ postOffices = ProcessData(source).postOffices
        /\ data = Cached(Arr(source))
        /\ files = [json |-> JsonText(Cached(Arr(source))), csv |-> Absent,
                    writable |-> FALSE]
    /\ op = "idle"
    /\ args = <<>>
    /\ result = Return(UNDEFINED)
    /\ validated = [address \in FrameAddresses |-> [calls |-> 0]]
    /\ pc = <<>>

\* new NepalGeoData() on the files it finds: no field is set yet
LoadInit ==
    /\ files \in [json : JsonFiles, csv : CsvFiles, writable : BOOLEAN]
    /\ data = UNDEFINED
    /\ districts = UNDEFINED
    /\ postOffices = UNDEFINED
    /\ op = "new NepalGeoData"
    /\ args = <<>>
    /\ result = Return(UNDEFINED)
    /\ validated = [address \in FrameAddresses |-> [calls |-> 0]]
    /\ pc = <<"constructor">>

\* the constructor sets its fields to null and calls loadData
Constructor ==
    /\ pc = <<"constructor">>
    /\ data' = NULL
    /\ districts' = NULL
    /\ postOffices' = NULL
    /\ pc' = <<"loadData">>
    /\ UNCHANGED <<op, args, result, validated, files>>

\* loadData, in its try block: createDataFromCSV first when the JSON file does
\* not exist, then on to reading it
LoadData ==
    /\ pc = <<"loadData">>
    /\ pc' = IF files.json = Absent
             THEN <<"createDataFromCSV", "loadData.try">>
             ELSE <<"loadData.try">>
    /\ UNCHANGED <<districts, postOffices, op, args, result, validated, data, files>>

\* Where an Error thrown by createDataFromCSV lands: in the catch block of
\* loadData when the call was made in its try block; out of loadData and the
\* constructor when it was made in the catch block
Propagate(callers) ==
    IF callers = <<"loadData.try">> THEN <<"loadData.catch">> ELSE <<"thrown">>

\* the outcome of the constructor on that stack
Outcome(frames) ==
    IF frames = <<"thrown">> THEN Throw("Failed to load Nepal geo data") ELSE result

\* createDataFromCSV: read npm.txt and parse it
ReadCSV ==
    /\ pc # <<>> /\ Head(pc) = "createDataFromCSV"
    /\ IF files.csv.kind = "csv"
       THEN /\ args' = <<Arr(ParseCSV(files.csv.text))>>
            /\ pc' = <<"createDataFromCSV.write">> \o Tail(pc)
            /\ UNCHANGED result
       ELSE /\ pc' = Propagate(Tail(pc))
            /\ result' = Outcome(Propagate(Tail(pc)))
            /\ UNCHANGED args
    /\ UNCHANGED <<districts, postOffices, op, validated, data, files>>

\* createDataFromCSV: write the JSON file, then set this.data
WriteJSON ==
    /\ pc # <<>> /\ Head(pc) = "createDataFromCSV.write"
    /\ IF files.writable
       THEN /\ files' = [files EXCEPT !.json = JsonText(JsonData(args[1].items))]
            /\ data' = JsonData(args[1].items)
            /\ pc' = <<"createDataFromCSV.processData">> \o Tail(pc)
            /\ UNCHANGED result
       ELSE /\ pc' = Propagate(Tail(pc))
            /\ result' = Outcome(Propagate(Tail(pc)))
            /\ UNCHANGED <<data, files>>
    /\ args' = <<>>
    /\ UNCHANGED <<districts, postOffices, op, validated>>

\* createDataFromCSV: processData, and back to the caller
ProcessDataFromCSV ==
    /\ pc # <<>> /\ Head(pc) = "createDataFromCSV.processData"
    /\ LET run == RunProcessData(data, [districts |-> districts,
                                         postOffices |-> postOffices])
           frames == IF run.threw THEN Propagate(Tail(pc))
                     ELSE IF Tail(pc) = <<"loadData.catch">> THEN <<"loadData.end">>
                     ELSE Tail(pc)
       IN  /\ districts' = run.districts
           /\ postOffices' = run.postOffices
           /\ pc' = frames
           /\ result' = Outcome(frames)
    /\ UNCHANGED <<op, args, validated, data, files>>

\* loadData, try block: read the JSON file and parse it
ReadJSONFile ==
    /\ pc = <<"loadData.try">>
    /\ IF ReadJSON(files.json).throws
       THEN /\ pc' = <<"loadData.catch">>
            /\ UNCHANGED data
       ELSE /\ data' = ReadJSON(files.json).value
            /\ pc' = <<"loadData.processData">>
    /\ UNCHANGED <<districts, postOffices, op, args, result, validated, files>>

\* loadData, try block: processData
ProcessDataFromJSON ==
    /\ pc = <<"loadData.processData">>
    /\ LET run == RunProcessData(data, [districts |-> districts,
                                         postOffices |-> postOffices])
       IN  /\ districts' = run.districts
           /\ postOffices' = run.postOffices
           /\ pc' = IF run.threw THEN <<"loadData.catch">> ELSE <<"loadData.end">>
    /\ UNCHANGED <<op, args, result, validated, data, files>>

\* loadData, catch block: fall back to createDataFromCSV
Fallback ==
    /\ pc = <<"loadData.catch">>
    /\ pc' = <<"createDataFromCSV", "loadData.catch">>
    /\ UNCHANGED <<districts, postOffices, op, args, result, validated, data, files>>

\* loadData and the constructor return
ConstructorReturns ==
    /\ pc = <<"loadData.end">>
    /\ pc' = <<>>
    /\ op' = "idle"
    /\ UNCHANGED <<districts, postOffices, args, result, validated, data, files>>

LoadNext ==
    \/ Constructor
    \/ LoadData
    \/ ReadCSV
    \/ WriteJSON
    \/ ProcessDataFromCSV
    \/ ReadJSONFile
    \/ ProcessDataFromJSON
    \/ Fallback
    \/ ConstructorReturns

LoadSpec == LoadInit /\ [][LoadNext]_vars

\* NepalGeoData.getStatistics: the counts, and the average in hundredths
\* (Math.round(x * 100) / 100; 0 / 0 is NaN)
GetStatistics ==
    [totalDistricts |-> Len(districts),
     totalPostOffices |-> Len(postOffices),
     averagePostOfficesPerDistrict100 |->
        IF Len(districts) = 0 THEN NaN
        ELSE Num((200 * Len(postOffices) + Len(districts)) \div (2 * Len(districts)))]

\* getStatistics called on the store that the constructor returned
CallGetStatistics ==
    /\ pc = <<>>
    /\ Call("getStatistics", <<>>, Return(GetStatistics))

\* the client of a loaded store takes the result
TakeStatistics == pc = <<>> /\ ReturnToCaller

\* the load, and statistics of the store it leaves
StatisticsNext == LoadNext \/ CallGetStatistics \/ TakeStatistics

StatisticsSpec == LoadInit /\ [][StatisticsNext]_vars

\* every string over a, b and A of at most MaxTextLen characters, and two
\* names that differ in one character
SimilarityTexts ==
    UNION {{SubSeq(f, 1, n) : f \in [1..n -> {"a", "b", "A"}]} : n \in 0..MaxTextLen}
    \cup {sLalitpur, sLalitpor}

CallCalculateSimilarity ==
    \E str1 \in SimilarityTexts, str2 \in SimilarityTexts :
        Call("calculateSimilarity", <<str1, str2>>,
             Return(CalculateSimilarity(str1, str2)))

\* the longest text handed to calculateFuzzyScore
MaxEditLen == 23

\* n times the character c
Repeat(c, n) == SubSeq([i \in 1..n |-> c], 1, n)

\* texts of one letter repeated, of every length up to MaxEditLen, and a name
EditTexts == {Repeat("a", m) : m \in 1..MaxEditLen} \cup {ToLowerCase(sLalitpur)}

\* the queries against a text: the text with its last d characters mistyped,
\* for every d, and with one more character
EditQueries(text) ==
    {SubSeq(text, 1, Len(text) - d) \o Repeat("b", d) : d \in 0..Len(text)}
    \cup {text \o <<"r">>}

\* NepalGeoData.calculateFuzzyScore(text, query), both lower-cased
CallCalculateFuzzyScore ==
    /\ Idle
    /\ \E text \in EditTexts :
         \E query \in EditQueries(text) :
            Call("calculateFuzzyScore", <<text, query>>,
                 Return(CalculateFuzzyScore(text, query)))

\* the fuzzy score alone
FuzzyNext == CallCalculateFuzzyScore \/ ReturnToCaller

FuzzySpec == Init /\ [][FuzzyNext]_vars

\* the longest list handed to removeDuplicates
MaxResults == 2

\* results whose names and districts hold the character that joins the key
DedupResults ==
    {[type |-> t, name |-> n, district |-> d, postalCode |-> Str(<<"1">>),
      relevance |-> 80, matchType |-> "prefix"] :
        t \in {"district", "postOffice"},
        n \in {<<"a">>, <<"a", "-", "b">>},
        d \in {UNDEFINED, Str(<<"c">>), Str(<<"b", "-", "c">>)}}

\* GeoSearch.removeDuplicates(results)
CallRemoveDuplicates ==
    /\ Idle
    /\ \E n \in 0..MaxResults :
         \E f \in [1..n -> DedupResults] :
            Call("removeDuplicates", <<SubSeq(f, 1, n)>>,
                 Return(RemoveDuplicates(SubSeq(f, 1, n))))

\* removeDuplicates alone
DedupNext == CallRemoveDuplicates \/ ReturnToCaller

DedupSpec == Init /\ [][DedupNext]_vars

\* the similarity of the Validation Layer alone
SimilarityNext == CallCalculateSimilarity \/ ReturnToCaller

SimilaritySpec == Init /\ [][SimilarityNext]_vars

\* the Similarity Engine alone
RelevanceNext == CallCalculateRelevance \/ ReturnToCaller

RelevanceSpec == Init /\ [][RelevanceNext]_vars

\* a client that validates addresses again and again between queries,
\* searches, statistics and exports
FrameNext ==
    \/ CallValidateAddressAgain
    \/ CallGetDistrictsWithMostPostOffices
    \/ CallGetDistrictsWithLeastPostOffices
    \/ CallGetDistrictAnalytics
    \/ CallExportData
    \/ CallSearchDistricts
    \/ CallValidateDistrict
    \/ CallValidatePostalCode
    \/ ReturnToCaller

FrameSpec == Init /\ [][FrameNext]_vars

Next ==
    \/ CallSearch
    \/ CallSearchByQuery
    \/ CallSearchByQueryWrongShape
    \/ CallSearchDistricts
    \/ CallSearchPostOffices
    \/ CallAdvancedSearch
    \/ CallGetSuggestions
    \/ CallValidateDistrict
    \/ CallValidatePostalCode
    \/ CallPostalValidatePostalCode
    \/ CallValidatePostOffice
    \/ CallValidateAddress
    \/ CallBatchValidate
    \/ ReturnToCaller

Spec == Init /\ [][Next]_vars

----------------------------------------------------------------------------
(* Error handling at the public boundary *)

StringOperations ==
    {"searchByQuery", "searchDistricts", "searchPostOffices", "getSuggestions",
     "validateDistrict", "validatePostalCode", "validatePostOffice"}

ObjectOperations == {"advancedSearch", "validateAddress"}

ListOperations ==
    {"searchByQuery", "searchDistricts", "searchPostOffices", "getSuggestions",
     "advancedSearch"}

IsObject(v) == Kind(v) \in {"address", "criteria", "array", "object"}

\* the call in progress was given a first argument of the wrong shape
WrongShapeCall ==
    \/ op \in StringOperations /\ ~IsString(args[1])
    \/ op \in ObjectOperations /\ ~IsObject(args[1])
    \/ op = "batchValidate" /\ Kind(args[1]) # "array"

\* C1: a public operation given an input of the wrong shape does not throw, and
\* returns an empty list (the searches) or a result that is not valid (the
\* validations)
C1_WrongShapeNeverThrows ==
    WrongShapeCall =>
        /\ ~result.throws
        /\ IF op \in ListOperations THEN result.value = <<>>
           ELSE ~result.value.isValid

\* a 5-digit string that no post office of the store carries
UnknownCode(v) ==
    /\ IsString(v)
    /\ IsFiveDigits(v.s)
    /\ \A i \in 1..Len(postOffices) : postOffices[i].postalCode # v.s

\* C2: a 5-digit postal code that no post office carries is rejected by both
\* validatePostalCode operations, and validateAddress of an address holding
\* only that code is not valid and reports 'Invalid postal code'
C2_UnknownCodeRejected ==
    /\ (op \in {"validatePostalCode", "PostalUtils.validatePostalCode"}
        /\ UnknownCode(args[1]))
       => ~result.value.isValid
    /\ (op = "validateAddress" /\ Kind(args[1]) = "address"
        /\ UnknownCode(args[1].postalCode)
        /\ args[1] = [EmptyAddress EXCEPT !.postalCode = args[1].postalCode])
       => /\ ~result.throws
          /\ ~result.value.isValid
          /\ \E e \in 1..Len(result.value.errors) :
                result.value.errors[e].text = "Invalid postal code"

----------------------------------------------------------------------------
(* The relevance score *)

\* C3: calculateRelevance returns an integer between 0 and 100
C3_RelevanceInRange ==
    op = "calculateRelevance" => result.value \in 0..100

\* rule 1 applies to text: it equals the query, case ignored
MatchesExactly(text, query) == ToLowerCase(text) = ToLowerCase(query)

\* rule 2 decides text: it starts with the query and does not equal it
MatchesByPrefix(text, query) ==
    /\ ~MatchesExactly(text, query)
    /\ StartsWith(ToLowerCase(text), ToLowerCase(query))

\* text matches through the fuzzy rules only: it does not contain the query
\* and still scores
MatchesFuzzilyOnly(text, query) ==
    /\ ~Includes(ToLowerCase(text), ToLowerCase(query))
    /\ CalculateRelevance(text, query) > 0

\* C4: for the scored candidate a and any candidate b of the same query, a
\* scores above b when a matches exactly and b by prefix, and when a matches by
\* prefix and b only through the fuzzy rules
C4_CascadeOutranks ==
    op = "calculateRelevance" =>
        LET a == args[1]
            query == args[2]
        IN  /\ MatchesExactly(a, query) =>
                \A b \in Texts : MatchesByPrefix(b, query) =>
                    result.value > CalculateRelevance(b, query)
            /\ MatchesByPrefix(a, query) =>
                \A b \in Texts : MatchesFuzzilyOnly(b, query) =>
                    result.value > CalculateRelevance(b, query)

\* C5: the score is that of the first applicable rule alone: 100 for equality
\* (case ignored), else 80 for a prefix, else 60 for containment, else 75 for an
\* abbreviation, else 70 for an acronym, else the edit-distance score when the
\* strings are similar, else the token-overlap score
C5_PriorityCascade ==
    op = "calculateRelevance" =>
        LET text == ToLowerCase(args[1])
            query == ToLowerCase(args[2])
            distance == LevenshteinDistance(text, query)
            longest == Max2(Len(text), Len(query))
        IN  result.value =
                IF text = query THEN 100
                ELSE IF StartsWith(text, query) THEN 80
                ELSE IF Includes(text, query) THEN 60
                ELSE IF AbbreviationHit(text, query) \/ ExpansionHit(text, query) THEN 75
                ELSE IF AcronymHit(text, query) THEN 70
                ELSE IF EditSimilar(distance, longest) THEN EditScore(distance, longest)
                ELSE WordScore(text, Split(query, {" "}))

\* 'lalitpurr' against 'Lalitpur': the abbreviation rule and the edit-distance
\* rule both apply, and the score is the abbreviation's alone
C5_Witness ==
    /\ op = "calculateRelevance"
    /\ args = <<sLalitpur, s_lalitpurr>>
    /\ EditSimilar(LevenshteinDistance(ToLowerCase(sLalitpur), s_lalitpurr), 9)
    /\ result.value = 75

----------------------------------------------------------------------------
(* The Query Router *)

IsDistrictName(name) == \E i \in 1..Len(districts) : districts[i].name = name

\* the call returned a list whose first element is the exact match of name
TopIsExact(name) ==
    /\ ~result.throws
    /\ Len(result.value) >= 1
    /\ result.value[1].name = name
    /\ result.value[1].matchType = "exact"
    /\ result.value[1].relevance = 100

\* C6: searching the name of a district of the store with scope 'district',
\* through searchByQuery or searchDistricts and with a limit of at least one,
\* returns that district first, as an exact match of relevance 100
C6_DistrictNameFindsDistrict ==
    /\ (op = "searchByQuery" /\ IsString(args[1]) /\ IsDistrictName(args[1].s)
        /\ args[2].includeType = "district" /\ Option(args[2].limit, 10) >= 1)
       => TopIsExact(args[1].s)
    /\ (op = "searchDistricts" /\ IsString(args[1]) /\ IsDistrictName(args[1].s)
        /\ Option(args[2].limit, 5) >= 1)
       => TopIsExact(args[1].s)

\* searchDistricts('Parsa') finds Parsa ahead of the similar Parbat
C6_Witness ==
    /\ op = "searchDistricts"
    /\ args[1] = Str(sParsa)
    /\ IsDistrictName(sParsa)
    /\ Len(result.value) = 2
    /\ result.value[1].name = sParsa
    /\ result.value[2].name = sParbat

CarriedCode(code) == \E i \in 1..Len(postOffices) : postOffices[i].postalCode = code

RelevanceOrder(options) == options.sortBy \in {"default", "relevance"}

\* the composite key of a result: type, name, district or empty, postal code
\* or empty
CompositeKey(r) == <<r.type, r.name, OrEmpty(r.district), OrEmpty(r.postalCode)>>

\* C7: searchByQuery of a postal code the store carries, ranked by relevance
\* and with a limit of at least one, whatever the scope, returns the
\* exact_postal entry of that code first with relevance 100, and no other entry
\* of the list has its key
C7_PostalCodeFirst ==
    (op = "searchByQuery" /\ IsString(args[1]) /\ CarriedCode(args[1].s)
     /\ RelevanceOrder(args[2]) /\ Option(args[2].limit, 10) >= 1)
    => /\ Len(result.value) >= 1
       /\ result.value[1].matchType = "exact_postal"
       /\ result.value[1].relevance = 100
       /\ result.value[1].postalCode = args[1]
       /\ \A i \in 2..Len(result.value) :
            CompositeKey(result.value[i]) # CompositeKey(result.value[1])

\* a code carried by two post offices: the exact_postal entry of the first,
\* then the scored entry of the second
C7_Witness ==
    /\ op = "searchByQuery"
    /\ args = <<Str(s44200), DefaultOptions>>
    /\ Len(result.value) = 2
    /\ result.value[1].matchType = "exact_postal"
    /\ result.value[1].name = sNayaBazar
    /\ result.value[2].matchType = "postal_code"
    /\ result.value[2].name = sKalimati

\* the results searchByQuery produces, in production order, and deduplicated
Produced(query, options) ==
    ExactPostalResults(query)
    \o ScoredResults(query,
                     IF options.includeType = "default" THEN "all"
                     ELSE options.includeType,
                     Option(options.minRelevance10, 3))

Deduplicated(query, options) == RemoveDuplicates(Produced(query, options))

\* a ranks strictly above b: higher matchType priority, or equal priority and
\* higher relevance
Outranks(a, b) ==
    \/ MatchTypePriority(a.matchType) > MatchTypePriority(b.matchType)
    \/ /\ MatchTypePriority(a.matchType) = MatchTypePriority(b.matchType)
       /\ a.relevance > b.relevance

InList(x, list) == \E i \in 1..Len(list) : list[i] = x

\* C8: ranked by relevance, searchByQuery returns min(limit, n) of the n
\* deduplicated results, in an order where no element is outranked by a later
\* one, and no deduplicated result left out outranks a returned one
C8_RankedThenTruncated ==
    (op = "searchByQuery" /\ IsString(args[1]) /\ Truthy(args[1])
     /\ RelevanceOrder(args[2]))
    => LET returned == result.value
           all == Deduplicated(args[1].s, args[2])
       IN  /\ Len(returned) = Min2(Option(args[2].limit, 10), Len(all))
           /\ \A i \in 1..Len(returned) : InList(returned[i], all)
           /\ \A i, j \in 1..Len(returned) :
                i < j => ~Outranks(returned[j], returned[i])
           /\ \A k \in 1..Len(all) :
                ~InList(all[k], returned) =>
                    \A i \in 1..Len(returned) : ~Outranks(all[k], returned[i])

\* 'nb' with limit 1: Naya Bazar is produced first (acronym, 70) and Anbu
\* second (contains, 60); Anbu has the higher priority and is the one returned
C8_Witness ==
    /\ op = "searchByQuery"
    /\ args = <<Str(s_nb), [DefaultOptions EXCEPT !.limit = Num(1)]>>
    /\ Len(Deduplicated(s_nb, args[2])) = 2
    /\ Deduplicated(s_nb, args[2])[1].name = sNayaBazar
    /\ Len(result.value) = 1
    /\ result.value[1].name = sAnbu

\* C9: no two results of searchByQuery have the same key, and every result is
\* the earliest produced result of its key
C9_UniqueKeysFirstKept ==
    op = "searchByQuery" =>
        /\ ~result.throws
        /\ \A i, j \in 1..Len(result.value) :
            i # j => CompositeKey(result.value[i]) # CompositeKey(result.value[j])
        /\ (IsString(args[1]) /\ Truthy(args[1])) =>
            LET produced == Produced(args[1].s, args[2])
            IN  \A i \in 1..Len(result.value) :
                    \E k \in 1..Len(produced) :
                        /\ produced[k] = result.value[i]
                        /\ \A j \in 1..(k - 1) :
                            CompositeKey(produced[j]) # CompositeKey(produced[k])

\* '44600': the post office is produced twice, as exact_postal and as a scored
\* entry, and returned once, as exact_postal
C9_Witness ==
    /\ op = "searchByQuery"
    /\ args = <<Str(s44600), DefaultOptions>>
    /\ \E k \in 2..Len(Produced(s44600, DefaultOptions)) :
            CompositeKey(Produced(s44600, DefaultOptions)[k])
                = CompositeKey(Produced(s44600, DefaultOptions)[1])
    /\ Len(result.value) < Len(Produced(s44600, DefaultOptions))
    /\ result.value[1].matchType = "exact_postal"

\* C10: every result of search has relevance above 20, a post office's being
\* the larger of its name relevance and its postal relevance (90 or 0); and
\* searchByQuery with default options, when the limit does not fill, returns
\* an entry for every result of search
C10_EngineThresholdDecides ==
    /\ op = "search" =>
        \A i \in 1..Len(result.value) :
            LET r == result.value[i]
            IN  /\ r.relevance > 20
                /\ r.type = "postOffice" =>
                    r.relevance =
                        Max2(CalculateRelevance(r.name, Trim(ToLowerCase(args[1]))),
                             IF Includes(r.postalCode.s, args[1]) THEN 90 ELSE 0)
    /\ (op = "searchByQuery" /\ args[2] = DefaultOptions
        /\ IsString(args[1]) /\ Truthy(args[1]) /\ Len(result.value) < 10)
       => LET found == Search(args[1].s, "all")
          IN  \A k \in 1..Len(found) :
                \E i \in 1..Len(result.value) :
                    /\ CompositeKey(result.value[i]) = CompositeKey(found[k])
                    /\ result.value[i].relevance >= found[k].relevance

\* a search that scored a district at 20 or below, dropped it, and kept others
C10_Witness ==
    /\ op = "search"
    /\ Len(result.value) > 0
    /\ \E i \in 1..Len(districts) :
        LET relevance == CalculateRelevance(districts[i].name, Trim(ToLowerCase(args[1])))
        IN  /\ relevance > 0
            /\ relevance <= 20
            /\ args[2] = "all"
            /\ \A k \in 1..Len(result.value) : result.value[k].name # districts[i].name

----------------------------------------------------------------------------
(* The Validation Layer *)

\* an error of the structured result with this text
HasError(text) ==
    \E e \in 1..Len(result.value.errors) : result.value.errors[e].text = text

\* the field is present (truthy) and is no string
PresentNoString(v) == Truthy(v) /\ ~IsString(v)

\* C11: validateAddress of an object-shaped address does not throw, whatever
\* its fields hold; it returns isValid, errors, warnings and suggestions, and a
\* district, postal code or post office that is present but no string shows
\* up as an error
C11_AddressNeverThrows ==
    (op = "validateAddress" /\ Kind(args[1]) = "address")
    => /\ ~result.throws
       /\ {"isValid", "errors", "warnings", "suggestions"} \subseteq DOMAIN result.value
       /\ PresentNoString(args[1].district) => HasError("Invalid district")
       /\ PresentNoString(args[1].postalCode) => HasError("Invalid postal code")
       /\ PresentNoString(args[1].postOffice) => HasError("Invalid post office")

\* the address holds a district and a postal code and nothing else
DistrictAndCodeOnly(address) ==
    /\ Kind(address) = "address"
    /\ address = [EmptyAddress EXCEPT !.district = address.district,
                                      !.postalCode = address.postalCode]

\* the district validates, the postal code validates, and the post office
\* carrying the code lies in the district that validateDistrict resolved
ConsistentDistrictAndCode(address) ==
    /\ IsString(address.district)
    /\ IsString(address.postalCode)
    /\ ValidateDistrict(address.district).value.isValid
    /\ ValidatePostalCode(address.postalCode).value.isValid
    /\ Truthy(GetPostOfficeByCode(Trim(address.postalCode.s)))
    /\ GetPostOfficeByCode(Trim(address.postalCode.s)).district
         = ValidateDistrict(address.district).value.district.name

\* C12: an address of a valid district and a valid postal code whose post
\* office lies in that district is valid, with no errors
C12_ConsistentAddressValid ==
    (op = "validateAddress" /\ DistrictAndCodeOnly(args[1])
     /\ ConsistentDistrictAndCode(args[1]))
    => /\ ~result.throws
       /\ result.value.isValid
       /\ result.value.errors = <<>>

\* the post office owning the postal code of the address (the code trimmed, as
\* validatePostalCode reads it), or undefined
OwnerOf(address) == GetPostOfficeByCode(Trim(address.postalCode.s))

\* the address states a district and a postal code that validatePostalCode
\* accepts, and the owner of the code lies in a district of another name
MismatchedDistrictAndCode(address) ==
    /\ Kind(address) = "address"
    /\ IsString(address.district) /\ Truthy(address.district)
    /\ IsString(address.postalCode)
    /\ ValidatePostalCode(address.postalCode).value.isValid
    /\ Truthy(OwnerOf(address))
    /\ ToLowerCase(OwnerOf(address).district) # ToLowerCase(address.district.s)

\* C13: an address whose accepted postal code is owned by a post office of
\* another district than the stated one is not valid, has the error that the
\* code does not belong to the stated district, and a suggestion naming the
\* owning district
C13_MismatchReported ==
    (op = "validateAddress" /\ MismatchedDistrictAndCode(args[1]))
    => /\ ~result.throws
       /\ ~result.value.isValid
       /\ HasError("Postal code does not belong to district")
       /\ \E k \in 1..Len(result.value.suggestions) :
            /\ result.value.suggestions[k].text = "Postal code belongs to"
            /\ result.value.suggestions[k].arg = OwnerOf(args[1]).district

\* some stored district name equals the text, case ignored
StoredDistrictIs(text) ==
    \E i \in 1..Len(districts) : ToLowerCase(districts[i].name) = ToLowerCase(text)

\* the similarity of a stored name to the input, both lower-cased
SimilarityTo(input, name) == CalculateSimilarity(ToLowerCase(input), ToLowerCase(name))

ExceedsThreshold(similarity) == 10 * similarity.num > 3 * similarity.den

AtLeast(a, b) == a.num * b.den >= b.num * a.den

\* the district names validateAddress suggests, none when it suggests nothing
SuggestedDistricts ==
    LET at == {k \in 1..Len(result.value.suggestions) :
                    result.value.suggestions[k].text = "Did you mean"}
    IN  IF at = {} THEN <<>> ELSE result.value.suggestions[CHOOSE k \in at : TRUE].arg

\* validateAddress of an unknown district: not valid, errors, and at most 3
\* suggestions, stored names above the threshold in descending similarity,
\* some whenever a stored name is above the threshold
UnknownDistrictReported(input) ==
    /\ ~result.throws
    /\ ~result.value.isValid
    /\ result.value.errors # <<>>
    /\ Len(SuggestedDistricts) <= 3
    /\ \A k \in 1..Len(SuggestedDistricts) :
        /\ IsDistrictName(SuggestedDistricts[k])
        /\ ExceedsThreshold(SimilarityTo(input, SuggestedDistricts[k]))
    /\ \A k \in 1..(Len(SuggestedDistricts) - 1) :
        AtLeast(SimilarityTo(input, SuggestedDistricts[k]),
                SimilarityTo(input, SuggestedDistricts[k + 1]))
    /\ (\E i \in 1..Len(districts) :
            ExceedsThreshold(SimilarityTo(input, districts[i].name)))
       => SuggestedDistricts # <<>>

\* C14 as stated: validateDistrict is valid exactly when a stored district
\* name equals the input, case ignored; an unknown district makes
\* validateAddress report as in UnknownDistrictReported
C14_ValidIffStoredName ==
    /\ (op = "validateDistrict" /\ IsString(args[1]))
       => (result.value.isValid <=> StoredDistrictIs(args[1].s))
    /\ (op = "validateAddress" /\ Kind(args[1]) = "address"
        /\ IsString(args[1].district) /\ Truthy(args[1].district)
        /\ ~StoredDistrictIs(Trim(args[1].district.s)))
       => UnknownDistrictReported(args[1].district.s)

\* C14, amended: validateDistrict is valid exactly when its input is a string
\* and a stored district name equals the trimmed input, case ignored; an
\* unknown district makes validateAddress report as in UnknownDistrictReported
C14_ValidIffStoredNameTrimmed ==
    /\ op = "validateDistrict"
       => /\ ~result.throws
          /\ result.value.isValid
               <=> (IsString(args[1]) /\ StoredDistrictIs(Trim(args[1].s)))
    /\ (op = "validateAddress" /\ Kind(args[1]) = "address"
        /\ IsString(args[1].district) /\ Truthy(args[1].district)
        /\ ~StoredDistrictIs(Trim(args[1].district.s)))
       => UnknownDistrictReported(args[1].district.s)

\* 'Paritpur' is unknown and four stored districts are similar to it: three of
\* them are suggested
C14_Witness ==
    /\ op = "validateAddress"
    /\ args[1] = Address(Str(sParitpur), UNDEFINED, UNDEFINED, UNDEFINED, UNDEFINED)
    /\ Cardinality({i \in 1..Len(districts) :
            ExceedsThreshold(SimilarityTo(sParitpur, districts[i].name))}) > 3
    /\ Len(SuggestedDistricts) = 3
    /\ ~result.value.isValid

\* the district argument is left out (null, undefined or '') or is a string
DistrictGivenOrLeftOut(district) == ~Truthy(district) \/ IsString(district)

\* the positions in the store of the candidate post offices: those of the
\* given district (case ignored), or all when none is given
CandidatePostOffices(district) ==
    {i \in 1..Len(postOffices) :
        Truthy(district) =>
            ToLowerCase(postOffices[i].district) = ToLowerCase(district.s)}

\* C15: validatePostOffice(name, district), the district a string or left
\* out, is valid exactly when a candidate post office has that name, case
\* ignored; when it is not valid its suggestions are at most 3, each the name
\* of a candidate whose similarity to the input is above 0.3
C15_PostOfficeInCandidateSet ==
    (op = "validatePostOffice" /\ DistrictGivenOrLeftOut(args[2]))
    => /\ ~result.throws
       /\ result.value.isValid
            <=> /\ IsString(args[1])
                /\ \E i \in CandidatePostOffices(args[2]) :
                        ToLowerCase(postOffices[i].name) = ToLowerCase(args[1].s)
       /\ ~result.value.isValid
            => /\ Len(result.value.suggestions) <= 3
               /\ \A k \in 1..Len(result.value.suggestions) :
                    \E i \in CandidatePostOffices(args[2]) :
                        /\ postOffices[i].name = result.value.suggestions[k]
                        /\ ExceedsThreshold(SimilarityTo(args[1].s, postOffices[i].name))

\* 'Kalimaty' in Lalitpur: not valid; Kalimati, of another district, is the
\* most similar post office of the store and is not suggested
C15_Witness ==
    /\ op = "validatePostOffice"
    /\ args = <<Str(sKalimaty), Str(sLalitpur)>>
    /\ ~result.value.isValid
    /\ result.value.suggestions # <<>>
    /\ \E i \in 1..Len(postOffices) :
        /\ postOffices[i].name = sKalimati
        /\ i \notin CandidatePostOffices(args[2])
    /\ \A k \in 1..Len(result.value.suggestions) :
        result.value.suggestions[k] # sKalimati

\* a step leaves the Dataset Store as it was
StoreKept == districts' = districts /\ postOffices' = postOffices

\* a step that validates an address again returns what the first call returned
SameAnswerAgain ==
    (op' = "validateAddress" /\ validated[args'[1]].calls > 0)
        => result' = validated[args'[1]].first

\* C16: no query, search, statistics, export or validation operation changes
\* the set of districts, a district's post office list or count, or the
\* global post office list or its order; and validateAddress called again on
\* the same address, whatever was called in between, returns the same result
C16_StoreNeverMutated == [][StoreKept /\ SameAnswerAgain]_vars

\* validateAddress has answered a second time for an address with an unknown
\* district, whose suggestions follow the order of the store's districts
C16_Witness ==
    /\ op = "validateAddress"
    /\ args[1].district = Str(sParitpur)
    /\ validated[args[1]].calls = 2
    /\ result = validated[args[1]].first
    /\ Len(result.value.suggestions) > 0
    /\ LeastPostOffices # districts

----------------------------------------------------------------------------
(* The load *)

\* the constructor has returned; it has thrown
Returned == pc = <<>>
Thrown == pc = <<"thrown">> /\ result.throws

\* the post office that a source record describes
PostOfficeOf(entry) ==
    [name |-> entry.PostOffice, postalCode |-> entry.Code, type |-> entry.Type,
     district |-> NormalizeDistrictName(entry.District)]

\* the post offices of a district, as the global list orders them
PostOfficesIn(name) == SelectSeq(postOffices, LAMBDA po : po.district = name)

\* The store holds this.data in full: the global list is a list, of the post
\* office of each record, in order, and each district lists its own post
\* offices, once each, with their count; this.data is the document of the
\* JSON file
FullyBuilt ==
    /\ Kind(PostalDataOf(data)) = "array"
    /\ files.json = JsonText(data)
    /\ Len(postOffices) = Len(data.postal_data.items)
    /\ postOffices = [i \in 1..Len(data.postal_data.items) |->
                        PostOfficeOf(data.postal_data.items[i])]
    /\ \A i \in 1..Len(postOffices) :
            \E k \in 1..Len(districts) : districts[k].name = postOffices[i].district
    /\ \A k \in 1..Len(districts) :
        /\ districts[k].postOffices = PostOfficesIn(districts[k].name)
        /\ districts[k].postOfficeCount = Len(districts[k].postOffices)
        /\ districts[k].postOfficeCount > 0
        /\ \A l \in 1..Len(districts) : districts[l].name = districts[k].name => l = k

\* the frames of the constructor in the order it can pass through them: the
\* try block of loadData, with createDataFromCSV first when the JSON file is
\* absent, then the catch block, then the end
FrameOrder ==
    << <<"constructor">>, <<"loadData">>,
       <<"createDataFromCSV", "loadData.try">>,
       <<"createDataFromCSV.write", "loadData.try">>,
       <<"createDataFromCSV.processData", "loadData.try">>,
       <<"loadData.try">>, <<"loadData.processData">>, <<"loadData.catch">>,
       <<"createDataFromCSV", "loadData.catch">>,
       <<"createDataFromCSV.write", "loadData.catch">>,
       <<"createDataFromCSV.processData", "loadData.catch">>,
       <<"loadData.end">>, <<"thrown">>, <<>> >>

\* how far the constructor has come
Progress(frames) == CHOOSE k \in 1..Len(FrameOrder) : FrameOrder[k] = frames

\* every step of the load takes the constructor further, and none follows its
\* return or its throw
MovesOn ==
    /\ ~Returned /\ pc # <<"thrown">>
    /\ Progress(pc') > Progress(pc)

\* C17: on every load path the constructor ends, and in one of two ways: it
\* throws, or it returns with the store built in full from the data it
\* loaded, one post office per record, never null, built in part or doubled.
\* It ends because each step moves it on through finitely many frames, each
\* of which but the last two has a step to take
C17_LoadAllOrNothing ==
    /\ [](Returned => FullyBuilt)
    /\ [](pc = <<"thrown">> => Thrown)
    /\ [](pc \in {FrameOrder[k] : k \in 1..Len(FrameOrder)})
    /\ [][MovesOn]_vars

\* the JSON file was written by this load from an npm.txt with a line to skip,
\* and the store holds its records
C17_Witness ==
    /\ Returned
    /\ files.csv = CsvText(CsvRaw)
    /\ data.metadata.lastUpdated = "now"
    /\ Len(postOffices) = 3
    /\ Len(districts) = 2

\* C18: once the constructor has returned, no two post offices of the store
\* carry the same postal code, whatever the source held
C18_PostalCodesUnique ==
    Returned =>
        \A i, j \in 1..Len(postOffices) :
            postOffices[i].postalCode = postOffices[j].postalCode => i = j

\* C19: calculateSimilarity(a, b) is calculateSimilarity(b, a), lies between 0
\* and 1, and is 1 exactly when a and b are the same string, the empty one
\* included
C19_SimilaritySymmetricBounded ==
    op = "calculateSimilarity"
    => /\ ~result.throws
       /\ result.value = CalculateSimilarity(args[2], args[1])
       /\ result.value.den > 0
       /\ 0 <= result.value.num /\ result.value.num <= result.value.den
       /\ result.value.num = result.value.den <=> args[1] = args[2]

\* two strings of different lengths with a similarity strictly between 0 and 1
C19_Witness ==
    /\ op = "calculateSimilarity"
    /\ Len(args[1]) < Len(args[2])
    /\ 0 < result.value.num /\ result.value.num < result.value.den
    /\ result.value = CalculateSimilarity(args[2], args[1])

----------------------------------------------------------------------------
(* The abbreviation rule *)

IsAbbreviation(q) == \E k \in 1..Len(Abbreviations) : Abbreviations[k][1] = q

ExpansionOf(q) ==
    Abbreviations[CHOOSE k \in 1..Len(Abbreviations) : Abbreviations[k][1] = q][2]

\* the rule applies to a candidate name: q is a key of the table, the name,
\* case ignored, does not contain q and does contain the expansion of q
RuleApplies(name, q) ==
    /\ IsAbbreviation(q)
    /\ ~Includes(ToLowerCase(name), q)
    /\ Includes(ToLowerCase(name), ExpansionOf(q))

\* the entries of the returned list for a candidate
Reported(type, name) ==
    {k \in 1..Len(result.value) :
        result.value[k].type = type /\ result.value[k].name = name}

\* the options let a candidate of that type scored 75 through: its type is in
\* scope, minRelevance is at most 75 and the list is shorter than the limit
LetsThrough(options, type) ==
    /\ options.includeType \in {"default", "all", type}
    /\ Option(options.minRelevance10, 3) <= 750
    /\ Len(result.value) < Option(options.limit, 10)

\* calculateRelevance gives a candidate of the rule 75, and searchByQuery
\* reports it, as a fuzzy match of relevance 75
ByAbbreviation(type, name, q, options) ==
    RuleApplies(name, q)
    => /\ CalculateRelevance(name, q) = 75
       /\ \A k \in Reported(type, name) :
            result.value[k].relevance = 75 /\ result.value[k].matchType = "fuzzy"
       /\ LetsThrough(options, type) => Reported(type, name) # {}

\* C20: for a query that is a key of the abbreviation table and a district or
\* post office whose name, case ignored, does not contain the query and does
\* contain its expansion, calculateRelevance returns 75 and searchByQuery
\* reports the candidate with matchType 'fuzzy'
C20_AbbreviationRule ==
    (op = "searchByQuery" /\ IsString(args[1]))
    => /\ ~result.throws
       /\ \A i \in 1..Len(districts) :
            ByAbbreviation("district", districts[i].name,
                           ToLowerCase(args[1].s), args[2])
       /\ \A i \in 1..Len(postOffices) :
            ByAbbreviation("postOffice", postOffices[i].name,
                           ToLowerCase(args[1].s), args[2])

\* searchByQuery('ktm') has reported the district Kathmandu as a fuzzy match of
\* relevance 75
C20_Witness ==
    /\ op = "searchByQuery"
    /\ args = <<Str(s_ktm), DefaultOptions>>
    /\ RuleApplies(sKathmandu, s_ktm)
    /\ \E k \in Reported("district", sKathmandu) :
        result.value[k].relevance = 75 /\ result.value[k].matchType = "fuzzy"

----------------------------------------------------------------------------
(* The typo scenario *)

\* C21: searchByQuery('lalitpurr') reports the district Lalitpur as a fuzzy
\* match whose relevance is the edit-distance score: the abbreviation table
\* and the acronym rule do not fire, the distance is 1, the similarity 8/9 and
\* the relevance round(50 * 8/9) = 44
C21_TypoByEditDistance ==
    (op = "searchByQuery" /\ args = <<Str(s_lalitpurr), DefaultOptions>>
        /\ IsDistrictName(sLalitpur))
    => /\ ~result.throws
       /\ ~AbbreviationHit(ToLowerCase(sLalitpur), s_lalitpurr)
       /\ ~AcronymHit(ToLowerCase(sLalitpur), s_lalitpurr)
       /\ LevenshteinDistance(ToLowerCase(sLalitpur), s_lalitpurr) = 1
       /\ Reported("district", sLalitpur) # {}
       /\ \A k \in Reported("district", sLalitpur) :
            result.value[k].matchType = "fuzzy" /\ result.value[k].relevance = 44

----------------------------------------------------------------------------
(* District lookup by name *)

UpperLetters ==
    {"A", "B", "C", "D", "E", "F", "G", "H", "I", "J", "K", "L", "M", "N", "O",
     "P", "Q", "R", "S", "T", "U", "V", "W", "X", "Y", "Z"}

\* the capital of a small letter, any other character as it is
ToUpperChar(c) ==
    IF \E u \in UpperLetters : ToLowerChar(u) = c /\ u # c
    THEN CHOOSE u \in UpperLetters : ToLowerChar(u) = c
    ELSE c

\* every way of writing name in capital and small letters
LetterCaseVariants(name) ==
    {SubSeq([i \in 1..Len(name) |->
                IF capital[i] THEN ToUpperChar(ToLowerChar(name[i]))
                ELSE ToLowerChar(name[i])], 1, Len(name)) :
        capital \in [1..Len(name) -> BOOLEAN]}

\* names looked up: every spelling of every stored name, parts of names, padded
\* names, unknown names, and no string
LookupNames ==
    {Str(v) : v \in UNION {LetterCaseVariants(districts[i].name) :
                              i \in 1..Len(districts)}}
    \cup {Str(s_kath), Str(s_Kath), Str(s_kathPadded), Str(s_mandu), Str(s_pur),
          Str(sKathmanduPadded), Str(s_xyz), Str(sEmpty)}
    \cup WrongShaped

\* NepalGeoHelper.getDistrict(name), which hands over to
\* DistrictUtils.getDistrictByName
CallGetDistrict ==
    /\ Idle
    /\ \E name \in LookupNames :
         Call("getDistrict", <<name>>, Return(GetDistrict(name)))

\* a client that looks districts up by name
LookupNext == CallGetDistrict \/ ReturnToCaller

LookupSpec == Init /\ [][LookupNext]_vars

\* name is the beginning of the stored name, but not all of it, whatever the
\* letter case
ProperPrefix(name, stored) ==
    /\ name # <<>>
    /\ Len(name) < Len(stored)
    /\ StartsWith(ToLowerCase(stored), ToLowerCase(name))

\* C22: getDistrict (DistrictUtils.getDistrictByName) given a partial name that
\* is a proper prefix of a stored district name, such as 'kath', returns that
\* district and not null
C22_PartialNameResolves ==
    (op = "getDistrict" /\ IsString(args[1]))
    => \A i \in 1..Len(districts) :
         ProperPrefix(args[1].s, districts[i].name)
         => /\ ~result.throws
            /\ Kind(result.value) # "null"
            /\ result.value.name = districts[i].name

\* the call looks up a string
LooksUpString == op = "getDistrict" /\ IsString(args[1])

\* the positions of the stored districts whose name is name, whatever the
\* letter case
StoredAs(name) ==
    {i \in 1..Len(districts) : ToLowerCase(districts[i].name) = ToLowerCase(name)}

\* the lookup found the district at position i of the store
Found(i) ==
    /\ ~result.throws
    /\ Kind(result.value) # "null"
    /\ result.value = districts[i]

NotFound == ~result.throws /\ Kind(result.value) = "null"

----------------------------------------------------------------------------
(* Suggestions *)

\* the partial query of the call is a string, or missing
SuggestsForStringOrNothing ==
    /\ op = "getSuggestions"
    /\ Kind(args[1]) \in {"string", "undefined", "null"}

\* the limit in force: options.limit, 5 when left out
SuggestionLimit == IF Kind(args[2].limit) = "number" THEN args[2].limit.n ELSE 5

\* name is one the type option lets through: a district name for 'district', a
\* post office name for 'postOffice', either for 'all' (the default)
DrawnFrom(type, name) ==
    \/ /\ type \in {"default", "all", "district"}
       /\ \E i \in 1..Len(districts) : districts[i].name = name
    \/ /\ type \in {"default", "all", "postOffice"}
       /\ \E i \in 1..Len(postOffices) : postOffices[i].name = name

\* C24: getSuggestions returns the empty list for a partial query shorter than
\* 2 characters, or missing; for a longer one it returns at most limit (5 by
\* default) names, no two the same, each starting with the query when both are
\* lower-cased, and each the name of a district or a post office as the type
\* option says
C24_SuggestionsByPrefix ==
    SuggestsForStringOrNothing
    => /\ ~result.throws
       /\ IF ~IsString(args[1]) \/ Len(args[1].s) < 2
          THEN result.value = <<>>
          ELSE /\ Len(result.value) <= SuggestionLimit
               /\ \A i, j \in 1..Len(result.value) :
                    result.value[i] = result.value[j] => i = j
               /\ \A i \in 1..Len(result.value) :
                    /\ SubSeq(ToLowerCase(result.value[i]), 1, Len(args[1].s))
                         = ToLowerCase(args[1].s)
                    /\ DrawnFrom(args[2].type, result.value[i])

\* 'ka' suggested two different names, one of them the name of a district and
\* of a post office at once
C24_Witness ==
    /\ op = "getSuggestions"
    /\ args[1] = Str(s_ka)
    /\ ~result.throws
    /\ Len(result.value) = 2
    /\ \E i \in 1..2 :
         /\ \E d \in 1..Len(districts) : districts[d].name = result.value[i]
         /\ \E p \in 1..Len(postOffices) : postOffices[p].name = result.value[i]

----------------------------------------------------------------------------
(* Match type and relevance *)

\* the match type that goes with a name relevance: 100 is exact, 80 a prefix,
\* 60 a substring, anything else fuzzy
MatchTypeOfRelevance(relevance) ==
    CASE relevance = 100 -> "exact"
      [] relevance = 80 -> "prefix"
      [] relevance = 60 -> "contains"
      [] OTHER -> "fuzzy"

\* C25: in searchByQuery the matchType of every district result is decided by
\* the rule that decided its relevance, for every query, padded and of several
\* words included: 'exact' exactly when the relevance is 100, 'prefix' exactly
\* when 80, 'contains' exactly when 60, and 'fuzzy' otherwise
C25_MatchTypeFollowsRelevance ==
    (op = "searchByQuery" /\ ~result.throws)
    => \A k \in 1..Len(result.value) :
         result.value[k].type = "district"
         => result.value[k].matchType = MatchTypeOfRelevance(result.value[k].relevance)

----------------------------------------------------------------------------
(* Districts and their post offices *)

\* the sum of postOfficeCount over the first n districts
RECURSIVE CountSum(_)
CountSum(n) == IF n = 0 THEN 0 ELSE CountSum(n - 1) + districts[n].postOfficeCount

\* the districts whose list holds the post office
ListedIn(postOffice) ==
    {k \in 1..Len(districts) :
        \E l \in 1..Len(districts[k].postOffices) :
            districts[k].postOffices[l] = postOffice}

\* C26: after load every district's postOfficeCount is the length of its
\* postOffices list; every post office in that list carries the district's
\* name and the list is in source order; every post office of the global list
\* is in exactly one district's list; and the counts add up to
\* getStatistics().totalPostOffices
C26_DistrictsPartitionPostOffices ==
    pc = <<>>
    => /\ \A k \in 1..Len(districts) :
            /\ districts[k].postOfficeCount = Len(districts[k].postOffices)
            /\ \A l \in 1..Len(districts[k].postOffices) :
                 districts[k].postOffices[l].district = districts[k].name
            /\ districts[k].postOffices = PostOfficesIn(districts[k].name)
       /\ \A i \in 1..Len(postOffices) : Cardinality(ListedIn(postOffices[i])) = 1
       /\ CountSum(Len(districts)) = Len(postOffices)
       /\ op = "getStatistics"
          => result.value.totalPostOffices = CountSum(Len(districts))

\* statistics were taken of a store with a district of several post offices
\* and more districts than one
C26_Witness ==
    /\ pc = <<>>
    /\ op = "getStatistics"
    /\ result.value.totalDistricts > 1
    /\ result.value.totalPostOffices > result.value.totalDistricts
    /\ \E k \in 1..Len(districts) : districts[k].postOfficeCount > 1

----------------------------------------------------------------------------
(* Advanced search *)

\* advancedSearch was given a criteria object whose fields, where supplied, have
\* the shape they are meant to have, and returned
AdvancedSearchReturned ==
    /\ op = "advancedSearch"
    /\ Kind(args[1]) = "criteria"
    /\ Kind(args[1].query) \in {"undefined", "string"}
    /\ Kind(args[1].district) \in {"undefined", "string"}
    /\ Kind(args[1].postOfficeType) \in {"undefined", "string"}
    /\ ~result.throws

\* the record passes the filters of the criteria that are supplied: its
\* district contains the district, its type is the type, its postal code lies
\* in the range as a number, and the free text is in its name, district or code
PassesFilters(r, c) ==
    /\ IsString(c.district)
       => Includes(ToLowerCase(r.district.s), ToLowerCase(c.district.s))
    /\ IsString(c.postOfficeType) => r.officeType = c.postOfficeType.s
    /\ Kind(c.postalCodeRange) # "undefined"
       => InRange(ParseInt(r.postalCode), ParseInt(c.postalCodeRange.start),
                  ParseInt(c.postalCodeRange.end))
    /\ IsString(c.query)
       => \/ Includes(ToLowerCase(r.name), ToLowerCase(c.query.s))
          \/ Includes(ToLowerCase(r.district.s), ToLowerCase(c.query.s))
          \/ Includes(r.postalCode.s, c.query.s)

\* C27: every record advancedSearch returns passes all the supplied filters at
\* once, has relevance 100 when no free text is given, matchType
\* 'advanced_search' and a relevance in 0..100; the list is in non-increasing
\* relevance order and no longer than limit (20 by default)
C27_AdvancedSearchFilters ==
    AdvancedSearchReturned
    => /\ \A k \in 1..Len(result.value) :
            /\ PassesFilters(result.value[k], args[1])
            /\ ~IsString(args[1].query) => result.value[k].relevance = 100
            /\ result.value[k].matchType = "advanced_search"
            /\ result.value[k].relevance \in 0..100
       /\ \A k \in 1..(Len(result.value) - 1) :
            result.value[k].relevance >= result.value[k + 1].relevance
       /\ Len(result.value) <= (IF Kind(args[1].limit) = "number"
                                THEN args[1].limit.n ELSE 20)

----------------------------------------------------------------------------
(* The edit-distance score *)

\* calculateFuzzyScore came to its edit-distance rule: the abbreviation table
\* and the acronym rule did not decide
ReachedEditRule ==
    /\ op = "calculateFuzzyScore"
    /\ ~AbbreviationHit(args[1], args[2])
    /\ ~ExpansionHit(args[1], args[2])
    /\ ~AcronymHit(args[1], args[2])

\* the distance and the maximum length of the call
EditDistanceOfCall == LevenshteinDistance(args[1], args[2])
EditLengthOfCall == IF Len(args[1]) >= Len(args[2]) THEN Len(args[1]) ELSE Len(args[2])

\* the rule fires: 1 - d / m > 0.6
EditRuleFires ==
    /\ ReachedEditRule
    /\ 10 * (EditLengthOfCall - EditDistanceOfCall) > 6 * EditLengthOfCall

\* v is 50 * (1 - d / m) rounded to the nearest integer, halves upwards
IsRoundedScore(v, d, m) ==
    /\ 2 * m * v <= 100 * (m - d) + m
    /\ 2 * m * v > 100 * (m - d) - m

\* C28 as stated: whenever the edit-distance rule fires the score
\* round(50 * (1 - d / m)) is an integer strictly greater than 30 and at most
\* 50, for all string lengths
C28_EditScoreAboveThirty ==
    EditRuleFires
    => /\ IsRoundedScore(result.value, EditDistanceOfCall, EditLengthOfCall)
       /\ result.value > 30
       /\ result.value <= 50

\* C28, amended: whenever the edit-distance rule fires the score
\* round(50 * (1 - d / m)) is an integer from 30 to 50, both included, so it
\* passes the threshold of more than 20 and stays below the acronym score 70 and
\* the abbreviation score 75; when the rule is reached and does not fire the
\* score is 0
C28_EditScoreThirtyToFifty ==
    /\ EditRuleFires
       => /\ IsRoundedScore(result.value, EditDistanceOfCall, EditLengthOfCall)
          /\ result.value \in 30..50
          /\ result.value > 20 /\ result.value < 70
    /\ (ReachedEditRule /\ ~EditRuleFires) => result.value = 0

\* the rule fired with a similarity between 0.6 and 0.61, which rounds to 30:
\* 9 characters of 23 mistyped
C28_Witness ==
    /\ EditRuleFires
    /\ EditLengthOfCall = 23
    /\ EditDistanceOfCall = 9
    /\ result.value = 30

----------------------------------------------------------------------------
(* Duplicates *)

\* C29: removeDuplicates drops a result only when an earlier result has the
\* same type, name, district and postalCode, taken as four separate fields: a
\* result whose four fields differ from those of every earlier result is kept,
\* also when names or districts hold the '-' that joins the key
C29_DropsOnlySameFields ==
    op = "removeDuplicates"
    => \A i \in 1..Len(args[1]) :
         (\A j \in 1..(i - 1) : CompositeKey(args[1][j]) # CompositeKey(args[1][i]))
         => \E k \in 1..Len(result.value) : result.value[k] = args[1][i]

----------------------------------------------------------------------------
(* Blank queries *)

\* the query is a string of white space and nothing else, or the empty string
IsBlank(v) == IsString(v) /\ \A i \in 1..Len(v.s) : IsSpace(v.s[i])

\* C30: searchByQuery treats a query that is empty after trimming like the
\* empty query: for every query of white space only it returns the empty list,
\* and never the whole dataset as matches
C30_BlankQueryFindsNothing ==
    (op = "searchByQuery" /\ IsBlank(args[1]))
    => /\ ~result.throws
       /\ result.value = <<>>

====
